---- MODULE Spec2Model ----
(***************************************************************************)
(* A model of the Titan rune indexer's write path: the block pipeline      *)
(* (update_to_tip, detect_reorg, handle_reorg, index_block), the mempool   *)
(* pipeline (index_mempool, index_tx, remove_txs), the Transaction Updater *)
(* (save and its helpers) and the batched UpdaterCache over the store.     *)
(*                                                                         *)
(* The rune parser, the rollback engine and the key-value store are not    *)
(* part of the sources at hand; they are modelled from the design document *)
(* (sections 4.1, 4.3 and 4.8) and marked as such where they are defined.  *)
(***************************************************************************)
EXTENDS Integers, Sequences, FiniteSets, TLC

(***************************************************************************)
(* Bounds of the model.                                                    *)
(***************************************************************************)
\* longest chain the node reports when its blocks carry transactions
MaxHeight == 3
\* most transactions in the node's mempool
MaxMempool == 1
\* longest chain the node reports when its blocks are empty
MaxHeaderHeight == 4
\* most reorganisations of the node's chain
MaxReorgs == 1
\* Settings.max_recoverable_reorg_depth ranges over 1..MaxReorgDepthSetting
MaxReorgDepthSetting == 3
\* Settings.commit_interval ranges over 1..MaxCommitInterval
MaxCommitInterval == 2
\* longest chain the node reports when the two pipelines run step by step
MaxPipelineHeight == 2
\* longest chain the node reports when old blocks are purged
MaxPurgeHeight == 5
\* most times one txid is added to or removed from blocks in one update
MaxTxCount == 2
\* most lines one client sends when the handshake is followed line by line
MaxHandshakeLines == 11
\* most lines one client sends when several clients are subscribed
MaxStreamLines == 2
\* events a subscriber's channel holds (mpsc::channel(100) in the code)
ChannelCapacity == 1
\* events the channel from the pipeline to the dispatcher holds
EventChannelCapacity == 2
\* flush windows the address updater goes through, and blocks in one window
MaxWindows == 2
MaxWindowBlocks == 2
\* bits of a rune amount (128 in the code: u128 counters, i128 deltas)
AmountBits == 4
\* most calls of save when the updater is driven on its own
MaxSaves == 2

\* Chain::first_rune_height() of the configured chain (regtest)
FirstRuneHeight == 0

(***************************************************************************)
(* The transactions of the model.  Each has at most one input and one      *)
(* output (vout 0).  Te etches the rune "R" with a premine; Tm1 and Tm2    *)
(* mint it; Tb is a cenotaph that spends the premine.                      *)
(***************************************************************************)
Txids == {"Te", "Tm1", "Tm2", "Tb"}

RuneR == <<0, 0>>

OutPoint(txid, vout) == <<txid, vout>>

NoEtching == <<>>
NoMint == <<>>

TxDef ==
  [t \in Txids |->
     CASE t = "Te" ->
            [artifact |-> "runestone",
             etching |-> <<[rune |-> "R", premine |-> 1,
                            terms |-> <<[amount |-> 1, cap |-> 1]>>]>>,
             mint |-> NoMint, input |-> <<>>]
       [] t \in {"Tm1", "Tm2"} ->
            [artifact |-> "runestone", etching |-> NoEtching,
             mint |-> <<RuneR>>, input |-> <<>>]
       [] OTHER ->
            [artifact |-> "cenotaph", etching |-> NoEtching,
             mint |-> NoMint, input |-> <<OutPoint("Te", 0)>>]]

\* the transactions a transaction depends on (those whose outputs it spends,
\* and the etching of the rune it mints)
Parents(t) ==
  {TxDef[t].input[i][1] : i \in DOMAIN TxDef[t].input}
    \cup (IF TxDef[t].mint # NoMint THEN {"Te"} ELSE {})

(***************************************************************************)
(* Helpers on finite maps and balances.                                    *)
(***************************************************************************)
EmptyMap == <<>>

Has(m, k) == k \in DOMAIN m

Put(m, k, v) == (k :> v) @@ m

Overlay(top, bottom) == top @@ bottom

Drop(m, ks) == [k \in DOMAIN m \ ks |-> m[k]]

RECURSIVE SeqSum(_)
SeqSum(s) == IF s = <<>> THEN 0 ELSE Head(s) + SeqSum(Tail(s))

RECURSIVE SetSum(_, _)
SetSum(m, ks) ==
  IF ks = {} THEN 0
  ELSE LET k == CHOOSE x \in ks : TRUE IN m[k] + SetSum(m, ks \ {k})

Range(s) == {s[i] : i \in DOMAIN s}

\* balances: RuneId -> amount, holding only non-zero amounts
BalGet(b, id) == IF Has(b, id) THEN b[id] ELSE 0

BalAdd(a, b) ==
  [id \in DOMAIN a \cup DOMAIN b |-> BalGet(a, id) + BalGet(b, id)]

BalOf(id, n) == IF n > 0 THEN (id :> n) ELSE EmptyMap

(***************************************************************************)
(* Block headers and hashes.  A hash is modelled by the chain of           *)
(* (nonce, transactions) pairs from genesis to the block, so that two      *)
(* blocks have the same hash exactly when they and all their ancestors     *)
(* agree.                                                                  *)
(***************************************************************************)
Header(prev, nonce, txs) == [prev_blockhash |-> prev, nonce |-> nonce, txs |-> txs]

block_hash(header) ==
  Append(header.prev_blockhash, [nonce |-> header.nonce, txs |-> header.txs])

\* models::Block::empty_block
empty_block(height, header) ==
  [height |-> height, header |-> header, tx_ids |-> <<>>, etched_runes |-> <<>>]

(***************************************************************************)
(* The key-value store (modelled from section 4.1 of the design document). *)
(* Rune entries are shared by the confirmed and the mempool state;         *)
(* outpoints and state-changes are kept per domain.                        *)
(***************************************************************************)
EmptyStore ==
  [block_count |-> 0, rune_count |-> 0, purged_blocks_count |-> 0,
   block_hashes |-> EmptyMap, blocks |-> EmptyMap,
   runes |-> EmptyMap, rune_ids |-> EmptyMap, rune_numbers |-> EmptyMap,
   rune_transactions |-> EmptyMap,
   txouts |-> EmptyMap, mempool_txouts |-> EmptyMap,
   tx_state_changes |-> EmptyMap, mempool_tx_state_changes |-> EmptyMap,
   mempool |-> {}]

\* Store::get_tx_out(outpoint, None): the confirmed entry, else the mempool one
store_has_tx_out(d, o) == Has(d.txouts, o) \/ Has(d.mempool_txouts, o)

store_get_tx_out(d, o) ==
  IF Has(d.txouts, o) THEN d.txouts[o] ELSE d.mempool_txouts[o]

\* Store::get_tx_state_changes(txid, Some(mempool))
store_tx_state_changes(d, mempool) ==
  IF mempool THEN d.mempool_tx_state_changes ELSE d.tx_state_changes

AppendAll(m, add) ==
  [k \in DOMAIN m \cup DOMAIN add |->
     (IF Has(m, k) THEN m[k] ELSE <<>>) \o (IF Has(add, k) THEN add[k] ELSE <<>>)]

\* Store::batch_update(update, mempool): one atomic commit of a BatchUpdate
batch_update(d, u, mempool) ==
  LET common == [d EXCEPT !.runes = Overlay(u.runes, @),
                          !.rune_ids = Overlay(u.rune_ids, @),
                          !.rune_numbers = Overlay(u.rune_numbers, @),
                          !.rune_transactions = AppendAll(@, u.rune_transactions)]
  IN IF mempool
     THEN [common EXCEPT !.mempool_txouts = Overlay(u.txouts, @),
                         !.mempool_tx_state_changes = Overlay(u.tx_state_changes, @),
                         !.mempool = @ \cup u.mempool_txs]
     ELSE [common EXCEPT !.txouts = Overlay(u.txouts, @),
                         !.tx_state_changes = Overlay(u.tx_state_changes, @),
                         !.blocks = Overlay(u.blocks, @),
                         !.block_hashes = Overlay(u.block_hashes, @),
                         !.rune_count = u.rune_count,
                         !.block_count = u.block_count,
                         !.purged_blocks_count = u.purged_blocks_count]

\* Store::batch_delete(delete): one atomic commit of a BatchDelete
batch_delete(d, del) ==
  [d EXCEPT !.txouts = Drop(@, del.tx_outs),
            !.tx_state_changes = Drop(@, del.tx_state_changes)]

(***************************************************************************)
(* UpdaterCache (cache.rs).                                                *)
(***************************************************************************)
\* BatchUpdate::new(rune_count, block_count, purged_blocks_count)
BatchUpdate_new(rune_count, block_count, purged_blocks_count) ==
  [rune_count |-> rune_count, block_count |-> block_count,
   purged_blocks_count |-> purged_blocks_count,
   blocks |-> EmptyMap, block_hashes |-> EmptyMap,
   txouts |-> EmptyMap, tx_state_changes |-> EmptyMap,
   runes |-> EmptyMap, rune_ids |-> EmptyMap, rune_numbers |-> EmptyMap,
   rune_transactions |-> EmptyMap, mempool_txs |-> {}]

\* BatchUpdate::is_empty: nothing staged but the counters
BatchUpdate_is_empty(u) ==
  /\ u.blocks = EmptyMap /\ u.block_hashes = EmptyMap
  /\ u.txouts = EmptyMap /\ u.tx_state_changes = EmptyMap
  /\ u.runes = EmptyMap /\ u.rune_ids = EmptyMap /\ u.rune_numbers = EmptyMap
  /\ u.rune_transactions = EmptyMap /\ u.mempool_txs = {}

BatchDelete_new ==
  [tx_outs |-> {}, script_pubkeys_outpoints |-> {}, tx_state_changes |-> {}]

BatchDelete_is_empty(del) ==
  del.tx_outs = {} /\ del.script_pubkeys_outpoints = {} /\ del.tx_state_changes = {}

NoHeight == <<>>

\* UpdaterCache::new
UpdaterCache_new(d, mempool) ==
  [update |-> BatchUpdate_new(d.rune_count, d.block_count, d.purged_blocks_count),
   delete |-> BatchDelete_new,
   first_block_height |-> d.block_count,
   last_block_height |-> NoHeight,
   mempool |-> mempool]

get_runes_count(c) == c.update.rune_count

get_block_count(c) == c.update.block_count

\* UpdaterCache::increment_block_count
increment_block_count(c) ==
  [c EXCEPT !.last_block_height = <<c.update.block_count>>,
            !.update.block_count = @ + 1]

\* UpdaterCache::set_new_block (the assert_eq on the height is the guard of
\* the callers: they build the block at get_block_count())
set_new_block(c, block) ==
  LET hash == block_hash(block.header)
      c1 == [c EXCEPT !.update.blocks = Put(@, hash, block),
                      !.update.block_hashes = Put(@, get_block_count(c), hash)]
  IN increment_block_count(c1)

increment_runes_count(c) == [c EXCEPT !.update.rune_count = @ + 1]

\* UpdaterCache::get_tx_out: the pending map first, then the store
has_tx_out(c, d, o) == Has(c.update.txouts, o) \/ store_has_tx_out(d, o)

\* a get_tx_out that asks the store first
get_tx_out_store_first(c, d, o) ==
  IF store_has_tx_out(d, o) THEN store_get_tx_out(d, o) ELSE c.update.txouts[o]

get_tx_out(c, d, o) ==
  IF Has(c.update.txouts, o) THEN c.update.txouts[o] ELSE store_get_tx_out(d, o)

set_tx_out(c, o, tx_out) == [c EXCEPT !.update.txouts = Put(@, o, tx_out)]

\* does_tx_exist as it would be if it looked at the pending window only
does_tx_exist_in_window(c, d, txid) == Has(c.update.tx_state_changes, txid)

\* UpdaterCache::does_tx_exist
does_tx_exist(c, d, txid) ==
  IF Has(c.update.tx_state_changes, txid) THEN TRUE
  ELSE IF c.mempool THEN txid \in d.mempool
  ELSE Has(store_tx_state_changes(d, c.mempool), txid)

set_tx_state_changes(c, txid, change) ==
  [c EXCEPT !.update.tx_state_changes = Put(@, txid, change)]

\* UpdaterCache::add_rune_transaction
add_rune_transaction(c, rune_id, txid) ==
  [c EXCEPT !.update.rune_transactions =
      Put(@, rune_id, (IF Has(@, rune_id) THEN @[rune_id] ELSE <<>>) \o <<txid>>)]

\* UpdaterCache::get_rune: the pending map first, then the store
has_rune(c, d, rune_id) == Has(c.update.runes, rune_id) \/ Has(d.runes, rune_id)

get_rune(c, d, rune_id) ==
  IF Has(c.update.runes, rune_id) THEN c.update.runes[rune_id] ELSE d.runes[rune_id]

set_rune(c, rune_id, entry) == [c EXCEPT !.update.runes = Put(@, rune_id, entry)]

\* UpdaterCache::get_rune_id
has_rune_id(c, d, rune) == Has(c.update.rune_ids, rune) \/ Has(d.rune_ids, rune)

set_rune_id(c, rune, rune_id) == [c EXCEPT !.update.rune_ids = Put(@, rune, rune_id)]

set_rune_id_number(c, number, rune_id) ==
  [c EXCEPT !.update.rune_numbers = Put(@, number, rune_id)]

set_mempool_tx(c, txid) == [c EXCEPT !.update.mempool_txs = @ \cup {txid}]

\* a should_flush that waits until the window is larger than max_size
should_flush_strict(c, max_size) == Cardinality(DOMAIN c.update.blocks) > max_size

\* UpdaterCache::should_flush
should_flush(c, max_size) == Cardinality(DOMAIN c.update.blocks) >= max_size

\* UpdaterCache::get_block_by_height / get_block
cache_get_block_by_height(c, d, height) ==
  LET hash == IF Has(c.update.block_hashes, height)
              THEN c.update.block_hashes[height] ELSE d.block_hashes[height]
  IN IF Has(c.update.blocks, hash) THEN c.update.blocks[hash] ELSE d.blocks[hash]

\* UpdaterCache::get_txs_state_changes
get_txs_state_changes(c, d) ==
  Overlay(c.update.tx_state_changes, store_tx_state_changes(d, c.mempool))

\* UpdaterCache::purge_block.  A block or state-change that is not found is
\* a StoreError (unwrap on a missing state-change panics): ok = FALSE.
purge_block_ok(c, d, height) ==
  /\ Has(c.update.block_hashes, height) \/ Has(d.block_hashes, height)
  /\ LET hash == IF Has(c.update.block_hashes, height)
                 THEN c.update.block_hashes[height] ELSE d.block_hashes[height]
     IN /\ Has(c.update.blocks, hash) \/ Has(d.blocks, hash)
        /\ Range(cache_get_block_by_height(c, d, height).tx_ids)
             \subseteq DOMAIN get_txs_state_changes(c, d)

purge_block(c, d, height, index_spent_outputs) ==
  LET block == cache_get_block_by_height(c, d, height)
      changes == get_txs_state_changes(c, d)
      txids == Range(block.tx_ids)
      txins == UNION {Range(changes[t].inputs) : t \in txids}
  IN [c EXCEPT !.delete.tx_outs =
                  IF index_spent_outputs THEN @ ELSE @ \cup txins,
               !.delete.script_pubkeys_outpoints = @ \cup txins,
               !.delete.tx_state_changes = @ \cup txids,
               !.update.purged_blocks_count = height]

Max(a, b) == IF a >= b THEN a ELSE b

\* the loop of prepare_to_delete: purge_block for i in from..to-1
RECURSIVE purge_range(_, _, _, _, _)
purge_range(c, d, from, to, index_spent_outputs) ==
  IF from >= to THEN [ok |-> TRUE, cache |-> c]
  ELSE IF ~purge_block_ok(c, d, from) THEN [ok |-> FALSE, cache |-> c]
  ELSE purge_range(purge_block(c, d, from, index_spent_outputs), d,
                   from + 1, to, index_spent_outputs)

\* prepare_to_delete as it would be if it purged up to the last block of the
\* window, the recoverable depth not subtracted
prepare_to_delete_to_tip(c, d, max_recoverable_reorg_depth, index_spent_outputs) ==
  IF c.last_block_height = NoHeight THEN [ok |-> TRUE, cache |-> c]
  ELSE LET last == c.last_block_height[1]
           from0 == IF c.first_block_height >= max_recoverable_reorg_depth + 1
                    THEN c.first_block_height - (max_recoverable_reorg_depth + 1)
                    ELSE 0
       IN purge_range(c, d, Max(from0, c.update.purged_blocks_count + 1),
                      last, index_spent_outputs)

\* UpdaterCache::prepare_to_delete
prepare_to_delete(c, d, max_recoverable_reorg_depth, index_spent_outputs) ==
  IF c.last_block_height = NoHeight THEN [ok |-> TRUE, cache |-> c]
  ELSE LET last == c.last_block_height[1]
           from0 == IF c.first_block_height >= max_recoverable_reorg_depth + 1
                    THEN c.first_block_height - (max_recoverable_reorg_depth + 1)
                    ELSE 0
       IN IF last < max_recoverable_reorg_depth THEN [ok |-> TRUE, cache |-> c]
          ELSE purge_range(c, d, Max(from0, c.update.purged_blocks_count + 1),
                           last - max_recoverable_reorg_depth, index_spent_outputs)

\* UpdaterCache::flush up to its first commit: prepare_to_delete, then
\* batch_update unless nothing is staged
flush_update(c, d, max_recoverable_reorg_depth, index_spent_outputs) ==
  LET p == IF c.mempool THEN [ok |-> TRUE, cache |-> c]
           ELSE prepare_to_delete(c, d, max_recoverable_reorg_depth, index_spent_outputs)
  IN [ok |-> p.ok, cache |-> p.cache,
      db |-> IF ~p.ok \/ BatchUpdate_is_empty(p.cache.update) THEN d
             ELSE batch_update(d, p.cache.update, p.cache.mempool)]

\* the rest of UpdaterCache::flush: batch_delete unless nothing is staged,
\* then the window is cleared
flush_delete(c, d) ==
  [cache |-> [c EXCEPT !.update = BatchUpdate_new(c.update.rune_count,
                                                  c.update.block_count,
                                                  c.update.purged_blocks_count),
                       !.delete = BatchDelete_new,
                       !.first_block_height = c.update.block_count,
                       !.last_block_height = NoHeight],
   db |-> IF BatchDelete_is_empty(c.delete) THEN d ELSE batch_delete(d, c.delete)]

\* flush as it would be if it did not clear the window after the commits
flush_keeping_window(c, d, max_recoverable_reorg_depth, index_spent_outputs) ==
  LET f == flush_update(c, d, max_recoverable_reorg_depth, index_spent_outputs)
  IN [ok |-> f.ok, cache |-> f.cache,
      db |-> IF f.ok THEN flush_delete(f.cache, f.db).db ELSE d]

\* UpdaterCache::flush: the store after the two commits and the reset cache;
\* ok = FALSE when prepare_to_delete fails (nothing is committed then)
flush(c, d, max_recoverable_reorg_depth, index_spent_outputs) ==
  LET p == IF c.mempool THEN [ok |-> TRUE, cache |-> c]
           ELSE prepare_to_delete(c, d, max_recoverable_reorg_depth, index_spent_outputs)
      c1 == p.cache
      d1 == IF BatchUpdate_is_empty(c1.update) THEN d
            ELSE batch_update(d, c1.update, c1.mempool)
      d2 == IF BatchDelete_is_empty(c1.delete) THEN d1
            ELSE batch_delete(d1, c1.delete)
      c2 == [c1 EXCEPT !.update = BatchUpdate_new(c1.update.rune_count,
                                                  c1.update.block_count,
                                                  c1.update.purged_blocks_count),
                       !.delete = BatchDelete_new,
                       !.first_block_height = c1.update.block_count,
                       !.last_block_height = NoHeight]
  IN IF p.ok THEN [ok |-> TRUE, cache |-> c2, db |-> d2]
     ELSE [ok |-> FALSE, cache |-> c1, db |-> d]

(***************************************************************************)
(* Rune parser (modelled from section 4.3 of the design document).         *)
(* index_runes reads balances and rune entries through the cache and       *)
(* returns the TransactionStateChange of one transaction; it writes        *)
(* nothing.                                                                *)
(***************************************************************************)
RECURSIVE input_balances(_, _, _)
input_balances(c, d, inputs) ==
  IF inputs = <<>> THEN EmptyMap
  ELSE BalAdd(IF has_tx_out(c, d, Head(inputs))
              THEN get_tx_out(c, d, Head(inputs)).runes ELSE EmptyMap,
              input_balances(c, d, Tail(inputs)))

\* step 4: the mint is accepted when the rune exists, has terms and its cap
\* is not reached
mintable(c, d, rune_id) ==
  /\ has_rune(c, d, rune_id)
  /\ get_rune(c, d, rune_id).terms # <<>>
  /\ get_rune(c, d, rune_id).mints < get_rune(c, d, rune_id).terms[1].cap

index_runes(c, d, height, tx_index, txid) ==
  LET tx == TxDef[txid]
      cenotaph == tx.artifact = "cenotaph"
      unspent == input_balances(c, d, tx.input)
      etches == tx.etching # NoEtching /\ ~has_rune_id(c, d, tx.etching[1].rune)
      etched == IF etches
                THEN <<[id |-> <<height, tx_index>>, rune |-> tx.etching[1].rune]>>
                ELSE NoEtching
      premine == IF etches /\ ~cenotaph
                 THEN BalOf(<<height, tx_index>>, tx.etching[1].premine) ELSE EmptyMap
      mints == tx.mint # NoMint /\ ~cenotaph /\ mintable(c, d, tx.mint[1])
      minted == IF mints
                THEN <<[rune_id |-> tx.mint[1],
                        amount |-> get_rune(c, d, tx.mint[1]).terms[1].amount]>>
                ELSE NoMint
      mintbal == IF mints THEN BalOf(minted[1].rune_id, minted[1].amount) ELSE EmptyMap
      allocated == BalAdd(unspent, BalAdd(premine, mintbal))
  IN [inputs |-> tx.input,
      outputs |-> <<[runes |-> IF cenotaph THEN EmptyMap ELSE allocated,
                     spent |-> FALSE]>>,
      etched |-> etched,
      minted |-> minted,
      burned |-> IF cenotaph THEN unspent ELSE EmptyMap]

\* TransactionStateChange::has_rune_updates
has_rune_updates(change) ==
  \/ change.etched # NoEtching
  \/ change.minted # NoMint
  \/ change.burned # EmptyMap
  \/ \E i \in DOMAIN change.outputs : change.outputs[i].runes # EmptyMap

\* TransactionStateChange::rune_ids: every rune the change touches
rune_ids(change) ==
  {change.etched[i].id : i \in DOMAIN change.etched}
    \cup {change.minted[i].rune_id : i \in DOMAIN change.minted}
    \cup DOMAIN change.burned
    \cup UNION {DOMAIN change.outputs[i].runes : i \in DOMAIN change.outputs}

(***************************************************************************)
(* Transaction Updater (transaction_updater.rs).  Every operator works on  *)
(* a state st = [ok, cache, events]: ok is FALSE once a step has returned  *)
(* an error, events are those handed to the event sender.  u is the        *)
(* updater: u.mempool is its mempool flag and u.sender tells whether it    *)
(* has an event sender.                                                    *)
(***************************************************************************)
TransactionUpdater_new(event_sender, mempool) ==
  [sender |-> event_sender, mempool |-> mempool]

Emit(st, u, e) ==
  IF u.sender THEN [st EXCEPT !.events = Append(@, e)] ELSE st

\* update_spendable_input as it would be if it left the outpoint as it found it
update_spendable_input_unchanged(st, d, outpoint, spent) ==
  IF has_tx_out(st.cache, d, outpoint)
  THEN [st EXCEPT !.cache = set_tx_out(@, outpoint, get_tx_out(st.cache, d, outpoint))]
  ELSE st

\* TransactionUpdater::update_spendable_input
update_spendable_input(st, d, outpoint, spent) ==
  IF has_tx_out(st.cache, d, outpoint)
  THEN [st EXCEPT !.cache =
          set_tx_out(@, outpoint,
                     [get_tx_out(st.cache, d, outpoint) EXCEPT !.spent = spent])]
  ELSE st

\* u128::MAX and i128::MAX at the model's width
U128_MAX == 2^AmountBits - 1

I128_MAX == 2^(AmountBits - 1) - 1

\* `amount as i128` of a u128: the same bits, read as a signed number
as_i128(amount) == IF amount > I128_MAX THEN amount - 2^AmountBits ELSE amount

\* u128::checked_add_signed: the sum, or None when it leaves the u128 range
checked_add_signed(n, amount) ==
  IF n + amount < 0 \/ n + amount > U128_MAX
  THEN [some |-> FALSE] ELSE [some |-> TRUE, value |-> n + amount]

\* update_mints counting a mempool mint as a confirmed one
update_mints_ignoring_mempool(st, d, u, rune_id, amount) ==
  IF ~has_rune(st.cache, d, rune_id) THEN [st EXCEPT !.ok = FALSE]
  ELSE LET rune_entry == get_rune(st.cache, d, rune_id)
           result == checked_add_signed(rune_entry.mints, amount)
       IN IF ~result.some THEN [st EXCEPT !.ok = FALSE]
          ELSE [st EXCEPT !.cache = set_rune(@, rune_id,
                   [rune_entry EXCEPT !.mints = result.value])]

\* TransactionUpdater::update_mints
update_mints(st, d, u, rune_id, amount) ==
  IF ~has_rune(st.cache, d, rune_id) THEN [st EXCEPT !.ok = FALSE]
  ELSE LET rune_entry == get_rune(st.cache, d, rune_id)
       IN IF u.mempool
          THEN LET result == checked_add_signed(rune_entry.pending_mints, amount)
               IN IF ~result.some THEN [st EXCEPT !.ok = FALSE]
                  ELSE [st EXCEPT !.cache = set_rune(@, rune_id,
                           [rune_entry EXCEPT !.pending_mints = result.value])]
          ELSE LET result == checked_add_signed(rune_entry.mints, amount)
               IN IF ~result.some THEN [st EXCEPT !.ok = FALSE]
                  ELSE [st EXCEPT !.cache = set_rune(@, rune_id,
                           [rune_entry EXCEPT !.mints = result.value])]

\* update_burn_balance as it would be if it wrote the confirmed counter for a
\* mempool transaction too
update_burn_balance_ignoring_mempool(st, d, u, rune_id, amount) ==
  IF ~has_rune(st.cache, d, rune_id) THEN [st EXCEPT !.ok = FALSE]
  ELSE LET rune_entry == get_rune(st.cache, d, rune_id)
           result == checked_add_signed(rune_entry.pending_burns, amount)
       IN IF ~result.some THEN [st EXCEPT !.ok = FALSE]
          ELSE [st EXCEPT !.cache = set_rune(@, rune_id,
                  [rune_entry EXCEPT !.burned = result.value])]

\* TransactionUpdater::update_burn_balance
update_burn_balance(st, d, u, rune_id, amount) ==
  IF ~has_rune(st.cache, d, rune_id) THEN [st EXCEPT !.ok = FALSE]
  ELSE LET rune_entry == get_rune(st.cache, d, rune_id)
           result == checked_add_signed(rune_entry.pending_burns, amount)
       IN IF ~result.some THEN [st EXCEPT !.ok = FALSE]
          ELSE IF u.mempool
          THEN [st EXCEPT !.cache = set_rune(@, rune_id,
                  [rune_entry EXCEPT !.pending_burns = result.value])]
          ELSE [st EXCEPT !.cache = set_rune(@, rune_id,
                  [rune_entry EXCEPT !.burned = result.value])]

\* TransactionUpdater::burn_rune
burn_rune(st, d, u, height, txid, rune_id, amount) ==
  LET st1 == update_burn_balance(st, d, u, rune_id, as_i128(amount))
  IN IF ~st1.ok THEN st1
     ELSE Emit(st1, u, [type |-> "RuneBurned", block_height |-> height, txid |-> txid,
                        rune_id |-> rune_id, amount |-> amount,
                        in_mempool |-> u.mempool])

\* mint_rune as it would be if only the block indexing announced a mint
mint_rune_confirmed_only(st, d, u, height, txid, rune_id, amount) ==
  LET st1 == update_mints(st, d, u, rune_id, 1)
  IN IF ~st1.ok \/ u.mempool THEN st1
     ELSE Emit(st1, u, [type |-> "RuneMinted", block_height |-> height, txid |-> txid,
                        rune_id |-> rune_id, amount |-> amount,
                        in_mempool |-> u.mempool])

\* TransactionUpdater::mint_rune
mint_rune(st, d, u, height, txid, rune_id, amount) ==
  LET st1 == update_mints(st, d, u, rune_id, 1)
  IN IF ~st1.ok THEN st1
     ELSE Emit(st1, u, [type |-> "RuneMinted", block_height |-> height, txid |-> txid,
                        rune_id |-> rune_id, amount |-> amount,
                        in_mempool |-> u.mempool])

\* TransactionUpdater::create_rune_entry
create_rune_entry(st, txid, id, rune, artifact) ==
  LET c1 == increment_runes_count(st.cache)
      etching == TxDef[txid].etching[1]
      entry == [block |-> id[1], burned |-> 0, etching |-> txid,
                terms |-> IF artifact = "cenotaph" THEN <<>> ELSE etching.terms,
                mints |-> 0, number |-> get_runes_count(c1),
                premine |-> IF artifact = "cenotaph" THEN 0 ELSE etching.premine,
                rune |-> rune, pending_burns |-> 0, pending_mints |-> 0]
      c2 == set_rune(c1, id, entry)
      c3 == set_rune_id_number(c2, get_runes_count(c2), id)
  IN [st EXCEPT !.cache = set_rune_id(c3, rune, id)]

\* the loop of save over the burned map
RECURSIVE save_burns(_, _, _, _, _, _, _)
save_burns(st, d, u, height, txid, burned, ids) ==
  IF ids = {} \/ ~st.ok THEN st
  ELSE LET id == CHOOSE x \in ids : TRUE
       IN save_burns(burn_rune(st, d, u, height, txid, id, burned[id]),
                     d, u, height, txid, burned, ids \ {id})

\* the loop of save over the consumed inputs
RECURSIVE save_inputs(_, _, _)
save_inputs(st, d, inputs) ==
  IF inputs = <<>> THEN st
  ELSE save_inputs(update_spendable_input(st, d, Head(inputs), TRUE), d, Tail(inputs))

\* the events of one created output, one per rune it holds
RECURSIVE transfer_events(_, _, _, _, _, _, _)
transfer_events(st, u, height, txid, outpoint, runes, ids) ==
  IF ids = {} THEN st
  ELSE LET id == CHOOSE x \in ids : TRUE
       IN transfer_events(
            Emit(st, u, [type |-> "RuneTransferred", block_height |-> height,
                         txid |-> txid, rune_id |-> id, amount |-> runes[id],
                         in_mempool |-> u.mempool]),
            u, height, txid, outpoint, runes, ids \ {id})

\* the loop of save over the produced outputs (vout = index - 1)
RECURSIVE save_outputs(_, _, _, _, _, _)
save_outputs(st, u, height, txid, outputs, i) ==
  IF i > Len(outputs) THEN st
  ELSE IF outputs[i].runes = EmptyMap
       THEN save_outputs(st, u, height, txid, outputs, i + 1)
       ELSE LET outpoint == OutPoint(txid, i - 1)
                st1 == [st EXCEPT !.cache = set_tx_out(@, outpoint, outputs[i])]
            IN save_outputs(
                 transfer_events(st1, u, height, txid, outpoint, outputs[i].runes,
                                 DOMAIN outputs[i].runes),
                 u, height, txid, outputs, i + 1)

RECURSIVE save_rune_transactions(_, _, _)
save_rune_transactions(st, txid, ids) ==
  IF ids = {} THEN st
  ELSE LET id == CHOOSE x \in ids : TRUE
       IN save_rune_transactions(
            [st EXCEPT !.cache = add_rune_transaction(@, id, txid)], txid, ids \ {id})

\* the steps of save after the burns, each on the state the one before left
save_mint(st, d, u, height, txid, change) ==
  IF st.ok /\ change.minted # NoMint
  THEN mint_rune(st, d, u, height, txid, change.minted[1].rune_id,
                 change.minted[1].amount)
  ELSE st

save_etching(st, u, height, txid, change) ==
  IF st.ok /\ change.etched # NoEtching
  THEN Emit(create_rune_entry(st, txid, change.etched[1].id, change.etched[1].rune,
                              TxDef[txid].artifact),
            u, [type |-> "RuneEtched", block_height |-> height, txid |-> txid,
                rune_id |-> change.etched[1].id, amount |-> 0, in_mempool |-> FALSE])
  ELSE st

save_spent(st, d, change) == IF st.ok THEN save_inputs(st, d, change.inputs) ELSE st

save_created(st, u, height, txid, change) ==
  IF st.ok THEN save_outputs(st, u, height, txid, change.outputs, 1) ELSE st

save_state_change(st, txid, change) ==
  IF st.ok
  THEN save_rune_transactions([st EXCEPT !.cache = set_tx_state_changes(@, txid, change)],
                              txid, rune_ids(change))
  ELSE st

\* TransactionUpdater::save
save(st, d, u, height, txid, change) ==
  save_state_change(
    save_created(
      save_spent(
        save_etching(
          save_mint(
            save_burns(st, d, u, height, txid, change.burned, DOMAIN change.burned),
            d, u, height, txid, change),
          u, height, txid, change),
        d, change),
      u, height, txid, change),
    txid, change)

(***************************************************************************)
(* Rollback engine (modelled from section 4.8 of the design document).     *)
(* revert_transaction applies the inverse of a stored state-change to the  *)
(* store; r = [ok, db].                                                    *)
(***************************************************************************)
rollback_txouts(d, mempool) == IF mempool THEN d.mempool_txouts ELSE d.txouts

rollback_set_txouts(d, mempool, m) ==
  IF mempool THEN [d EXCEPT !.mempool_txouts = m] ELSE [d EXCEPT !.txouts = m]

\* restore the inputs: the consumed outpoints are unspent again
rollback_inputs(d, mempool, inputs) ==
  LET m == rollback_txouts(d, mempool)
  IN rollback_set_txouts(d, mempool,
       [o \in DOMAIN m |->
          IF o \in Range(inputs) THEN [m[o] EXCEPT !.spent = FALSE] ELSE m[o]])

\* delete the outpoints the transaction created
rollback_outputs(d, mempool, txid, outputs) ==
  rollback_set_txouts(d, mempool,
    Drop(rollback_txouts(d, mempool),
         {OutPoint(txid, i - 1) : i \in {j \in DOMAIN outputs : outputs[j].runes # EmptyMap}}))

\* decrement the mint counter
rollback_mint(r, mempool, rune_id) ==
  IF ~r.ok \/ ~Has(r.db.runes, rune_id) THEN r
  ELSE IF mempool
       THEN IF r.db.runes[rune_id].pending_mints < 1 THEN [r EXCEPT !.ok = FALSE]
            ELSE [r EXCEPT !.db.runes[rune_id].pending_mints = @ - 1]
       ELSE IF r.db.runes[rune_id].mints < 1 THEN [r EXCEPT !.ok = FALSE]
            ELSE [r EXCEPT !.db.runes[rune_id].mints = @ - 1]

\* credit back the burned amounts
RECURSIVE rollback_burns(_, _, _, _)
rollback_burns(r, mempool, burned, ids) ==
  IF ids = {} \/ ~r.ok THEN r
  ELSE LET id == CHOOSE x \in ids : TRUE
           r1 == IF ~Has(r.db.runes, id) THEN r
                 ELSE IF mempool
                      THEN IF r.db.runes[id].pending_burns < burned[id]
                           THEN [r EXCEPT !.ok = FALSE]
                           ELSE [r EXCEPT !.db.runes[id].pending_burns = @ - burned[id]]
                      ELSE IF r.db.runes[id].burned < burned[id]
                           THEN [r EXCEPT !.ok = FALSE]
                           ELSE [r EXCEPT !.db.runes[id].burned = @ - burned[id]]
       IN rollback_burns(r1, mempool, burned, ids \ {id})

\* undo an etching: decrement rune_count, delete the entry and its indices
rollback_etching(r, etched) ==
  IF ~r.ok \/ ~Has(r.db.runes, etched.id) THEN r
  ELSE IF r.db.rune_count < 1 THEN [r EXCEPT !.ok = FALSE]
  ELSE [r EXCEPT !.db.rune_count = @ - 1,
                 !.db.rune_numbers = Drop(@, {r.db.runes[etched.id].number}),
                 !.db.rune_ids = Drop(@, {etched.rune}),
                 !.db.runes = Drop(@, {etched.id})]

\* Rollback::revert_transaction
revert_transaction(r, mempool, txid, change) ==
  LET d1 == rollback_outputs(rollback_inputs(r.db, mempool, change.inputs),
                             mempool, txid, change.outputs)
      d2 == IF mempool
            THEN [d1 EXCEPT !.mempool_tx_state_changes = Drop(@, {txid})]
            ELSE [d1 EXCEPT !.tx_state_changes = Drop(@, {txid})]
      r1 == [r EXCEPT !.db = d2]
      r2 == IF change.minted # NoMint
            THEN rollback_mint(r1, mempool, change.minted[1].rune_id) ELSE r1
      r3 == rollback_burns(r2, mempool, change.burned, DOMAIN change.burned)
  IN IF ~r.ok THEN r
     ELSE IF change.etched # NoEtching THEN rollback_etching(r3, change.etched[1])
     ELSE r3

(***************************************************************************)
(* State of the system.                                                    *)
(***************************************************************************)
VARIABLES
  settings,      \* Settings: max_recoverable_reorg_depth, commit_interval, ...
  chain,         \* the node's best chain: chain[h + 1] is the block at height h
  node_mempool,  \* the node's mempool (txids)
  node_hist,     \* the node's past: its reorganisations, the transactions it relayed
  db,            \* the store
  is_at_tip,     \* Updater.is_at_tip
  ut,            \* the update_to_tip call in progress: its position and locals
  result,        \* what the last update_to_tip call returned
  events,        \* the events handed to the event sender
  mp,            \* the index_mempool call in progress: its position and locals
  store_lock,    \* StoreWithLock: the RwLock around the store
  reader,        \* what a reading thread saw of the store last
  tx_update,     \* a TransactionUpdate: the transitions of one update cycle
  tcp,           \* the TCP subscription server: its table, channels and connections
  addr,          \* an AddressUpdater and the address deltas it staged and flushed
  rune_pair,     \* two RuneIds and their encoded keys as get_sorted_rune_ids returns them
  shutdown_flag, \* Updater.shutdown_flag
  alkanes,       \* the alkanes key-value store: its shared pending batch and its column family
  hist           \* history variable: what has happened, for stating the properties

vars == <<settings, chain, node_mempool, node_hist, db, is_at_tip, ut, result, events,
          mp, store_lock, reader, tx_update, tcp, addr, rune_pair, shutdown_flag, alkanes, hist>>

(***************************************************************************)
(* TCP subscription server (tcp_subscription.rs), initial state.  A        *)
(* subscription is keyed by its connection (Uuid::new_v4 is fresh for each *)
(* connection).  tcp.conn[c] is the handler of connection c: its position, *)
(* the preamble counter of read_handshake_request, the PING lines read and *)
(* the PONGs written, the lines read so far, the events waiting in its     *)
(* channel, and why it ended.  tcp.sent tells the event broadcast last.    *)
(***************************************************************************)
Conns == {1, 2}

NoLine == [text |-> "", len |-> 0]

ConnIdle ==
  [pc |-> "idle", preamble_lines |-> 0, pings |-> 0, pongs |-> 0, lines |-> 0,
   last |-> NoLine, chan |-> <<>>, err |-> "none"]

TcpSubscriptionManager_new ==
  [subscriptions |-> EmptyMap, conn |-> [c \in Conns |-> ConnIdle], sent |-> <<>>]

\* AddressUpdater::new, in a pipeline that has staged and stored nothing yet:
\* the updater's two maps, the two script-pubkey maps of the cache's update
\* as the last flush found them, the two indexes of the store, the position
\* in the flush window, and where each outpoint was created and spent
AddressUpdater_new ==
  [new_outpoints |-> EmptyMap, spent_outpoints |-> EmptyMap,
   staged |-> [script_pubkeys |-> EmptyMap, script_pubkeys_outpoints |-> EmptyMap],
   store |-> [script_pubkeys |-> EmptyMap, outpoints |-> EmptyMap],
   window |-> 0, block |-> 0, born |-> EmptyMap, died |-> EmptyMap]

NoPair == <<>>

\* the variables of the indexing pipeline, and those of the parts beside it
IndexerVars == <<settings, chain, node_mempool, node_hist, db, is_at_tip, ut, result,
                 events, mp, store_lock, reader, tx_update, hist>>

\* <AlkanesBatch as Default>::default
AlkanesBatch_default == [puts |-> EmptyMap, deletes |-> {}]

\* AlkanesRocksDBStore::new over a column family that holds cf; ops tells
\* the last operation pending on each key and how many calls were made
AlkanesRocksDBStore_new(cf) ==
  [batch |-> AlkanesBatch_default, db |-> cf, ops |-> EmptyMap, calls |-> 0]

SideVars == <<tcp, addr, rune_pair, shutdown_flag, alkanes>>

UtIdle == [pc |-> "idle"]

MpIdle == [pc |-> "idle"]

\* RwLock::new: no writer, no reader
StoreWithLock_new == [writer |-> FALSE, readers |-> 0]

\* StoreWithLock::read: the read guard is a local of read() and is dropped
\* when read() returns the cloned handle
StoreWithLock_read(l) == [granted |-> ~l.writer, lock |-> l]

\* StoreWithLock::write: the write guard is dropped when write() returns
StoreWithLock_write(l) == [granted |-> ~l.writer /\ l.readers = 0, lock |-> l]

NoReading == <<>>

\* TransactionUpdate::default
TransactionUpdate_default ==
  [mempool_added |-> {}, mempool_removed |-> {}, block_added |-> {},
   block_removed |-> {}, block_added_counts |-> EmptyMap,
   block_removed_counts |-> EmptyMap]

NoResult == [kind |-> "none"]

Ok == [kind |-> "ok"]

(***************************************************************************)
(* The node, as seen through the RPC client and the block fetcher.         *)
(***************************************************************************)
\* RpcApi::get_block_count, as update_to_tip uses it: the blocks to index
\* are those at heights below it
rpc_get_block_count == Len(chain)

\* RpcApi::get_block_hash(height)
rpc_get_block_hash(height) == SubSeq(chain, 1, height + 1)

\* the block the fetcher delivers for a height
node_block(height) ==
  [header |-> Header(SubSeq(chain, 1, height), chain[height + 1].nonce,
                     chain[height + 1].txs),
   txdata |-> chain[height + 1].txs]

ChainTxs(ch) == UNION {Range(ch[i].txs) : i \in DOMAIN ch}

\* the transaction lists of the blocks the node mines
BlockChoices == {<<>>, <<"Tm1">>, <<"Tm1", "Tm2">>, <<"Tb">>}

\* the transaction lists a new block may carry: transactions that are not yet
\* in the chain, each after the transactions it depends on
BlockTxs(ch, choices) ==
  {txs \in choices :
     \A i \in DOMAIN txs :
        /\ txs[i] \notin ChainTxs(ch)
        /\ Parents(txs[i]) \subseteq ChainTxs(ch) \cup {txs[j] : j \in 1..(i - 1)}}

\* the transactions the node relays unconfirmed (the etching is mined directly)
MempoolTxids == {"Tm1", "Tb"}

(***************************************************************************)
(* Reorg detection and handling (index_updater.rs).                        *)
(***************************************************************************)
Recoverable(height, depth) == [kind |-> "recoverable", height |-> height, depth |-> depth]

Unrecoverable == [kind |-> "unrecoverable"]

\* is_halted as it would be if it matched every reorg error
is_halted_any_reorg(r) == r.kind \in {"unrecoverable", "recoverable"}

\* UpdaterError::is_halted
is_halted(r) == r.kind = "unrecoverable"

\* the loop of detect_reorg: for depth in from..(max_recoverable_reorg_depth - 1)
RECURSIVE detect_reorg_loop(_, _, _, _)
detect_reorg_loop(d, height, depth, max_recoverable_reorg_depth) ==
  IF depth >= max_recoverable_reorg_depth THEN Unrecoverable
  ELSE LET height_to_check == IF height >= depth THEN height - depth ELSE 0
       IN IF ~Has(d.block_hashes, height_to_check) THEN [kind |-> "store_error"]
          ELSE IF height_to_check >= Len(chain) THEN [kind |-> "rpc_error"]
          ELSE IF d.block_hashes[height_to_check] = rpc_get_block_hash(height_to_check)
               THEN Recoverable(height, depth)
          ELSE detect_reorg_loop(d, height, depth + 1, max_recoverable_reorg_depth)

\* Updater::detect_reorg
detect_reorg(d, block, height, max_recoverable_reorg_depth) ==
  IF height = 0 THEN Unrecoverable
  ELSE IF ~Has(d.block_hashes, height - 1) THEN Ok
  ELSE IF d.block_hashes[height - 1] = block.header.prev_blockhash THEN Ok
  ELSE detect_reorg_loop(d, height, 1, max_recoverable_reorg_depth)

\* the loop of revert_block over the block's transactions, last first
RECURSIVE revert_txs(_, _, _)
revert_txs(r, mempool, txids) ==
  IF txids = <<>> \/ ~r.ok THEN r
  ELSE LET txid == txids[Len(txids)]
           changes == store_tx_state_changes(r.db, mempool)
           r1 == IF Has(changes, txid)
                 THEN revert_transaction(r, mempool, txid, changes[txid]) ELSE r
       IN revert_txs(r1, mempool, SubSeq(txids, 1, Len(txids) - 1))

\* Updater::revert_block
revert_block(r, height, block) ==
  LET r1 == revert_txs(r, FALSE, block.tx_ids)
  IN IF ~r1.ok THEN r1
     ELSE [r1 EXCEPT !.db.blocks = Drop(@, {block_hash(block.header)}),
                     !.db.block_hashes = Drop(@, {height})]

\* the loop of handle_reorg: for i in from..(depth - 1)
RECURSIVE handle_reorg_loop(_, _, _, _)
handle_reorg_loop(r, height, i, depth) ==
  IF i >= depth \/ ~r.ok THEN r
  ELSE LET h == height - i
       IN IF ~Has(r.db.block_hashes, h) \/ ~Has(r.db.blocks, r.db.block_hashes[h])
          THEN [r EXCEPT !.ok = FALSE]
          ELSE handle_reorg_loop(revert_block(r, h, r.db.blocks[r.db.block_hashes[h]]),
                                 height, i + 1, depth)

\* Updater::handle_reorg (is_at_tip is cleared by the caller's action)
handle_reorg(d, height, depth) ==
  handle_reorg_loop([ok |-> TRUE, db |-> [d EXCEPT !.block_count = height - depth]],
                    height, 1, depth)

(***************************************************************************)
(* Block and transaction indexing (index_updater.rs).                      *)
(***************************************************************************)
\* the parallel pass of index_block: every transaction is parsed against the
\* cache as it is before any transaction of the block is saved
RECURSIVE parse_block(_, _, _, _, _)
parse_block(c, d, height, txdata, i) ==
  IF i > Len(txdata) THEN <<>>
  ELSE LET change == index_runes(c, d, height, i - 1, txdata[i])
           rest == parse_block(c, d, height, txdata, i + 1)
       IN IF has_rune_updates(change)
          THEN <<[txid |-> txdata[i], result |-> change]>> \o rest ELSE rest

\* the sequential pass of index_block: save each parsed transaction
RECURSIVE save_block(_, _, _, _, _, _)
save_block(st, d, u, height, block_data, block) ==
  IF block_data = <<>> \/ ~st.ok THEN [st |-> st, block |-> block]
  ELSE LET e == Head(block_data)
           st1 == save(st, d, u, height, e.txid, e.result)
           block1 == [block EXCEPT
                        !.tx_ids = Append(@, e.txid),
                        !.etched_runes =
                           IF e.result.etched # NoEtching
                           THEN Append(@, e.result.etched[1].id) ELSE @]
       IN IF ~st1.ok THEN [st |-> st1, block |-> block]
          ELSE save_block(st1, d, u, height, Tail(block_data), block1)

\* Updater::index_block: [st, block]
index_block(c, d, bitcoin_block, height) ==
  save_block([ok |-> TRUE, cache |-> c, events |-> <<>>], d,
             TransactionUpdater_new(FALSE, FALSE), height,
             parse_block(c, d, height, bitcoin_block.txdata, 1),
             empty_block(height, bitcoin_block.header))

\* Updater::index_tx: st = [ok, cache, events]
index_tx(st, d, txid) ==
  IF does_tx_exist(st.cache, d, txid) THEN st
  ELSE LET height == get_block_count(st.cache)
           change == index_runes(st.cache, d, height, 0, txid)
           st1 == IF has_rune_updates(change)
                  THEN save(st, d, TransactionUpdater_new(FALSE, TRUE), height, txid, change)
                  ELSE st
       IN IF ~st1.ok THEN st1
          ELSE IF st1.cache.mempool
               THEN [st1 EXCEPT !.cache = set_mempool_tx(@, txid)]
               ELSE st1

RECURSIVE index_txs(_, _, _)
index_txs(st, d, tx_order) ==
  IF tx_order = <<>> \/ ~st.ok THEN st
  ELSE index_txs(index_tx(st, d, Head(tx_order)), d, Tail(tx_order))

\* remove_txs as it would be if it dropped the transactions from the mempool
\* set without reverting them
remove_txs_without_revert(r, txids, mempool) ==
  [r EXCEPT !.db.mempool = @ \ Range(txids)]

\* Updater::remove_txs: r = [ok, db]
RECURSIVE remove_txs(_, _, _)
remove_txs(r, txids, mempool) ==
  IF txids = <<>> \/ ~r.ok THEN r
  ELSE LET txid == Head(txids)
           r0 == [r EXCEPT !.db.mempool = @ \ {txid}]
           changes == store_tx_state_changes(r0.db, mempool)
           r1 == IF Has(changes, txid)
                 THEN revert_transaction(r0, mempool, txid, changes[txid]) ELSE r0
       IN remove_txs(r1, Tail(txids), mempool)

\* the orders in which a set of transactions may be listed
Orders(S) ==
  {s \in [1..Cardinality(S) -> S] : \A i, j \in DOMAIN s : s[i] = s[j] => i = j}

\* mempool::sort_transaction_order: a parent precedes its child
TxOrders(S) ==
  {s \in Orders(S) : \A i, j \in DOMAIN s : s[i] \in Parents(s[j]) => i < j}

(***************************************************************************)
(* The history variable.  hist.recovered tells that handle_reorg has       *)
(* rolled the store back.  hist.stage follows each relayed transaction     *)
(* through "its mint was indexed from the mempool" (1), "and then a block  *)
(* with it was indexed and flushed" (2), "and then a mempool tick ran"     *)
(* (3); any other order leaves the sequence (4).  Where the updater is     *)
(* driven step by step, hist.applied holds the store as it was before the  *)
(* block applied last, hist.rolled tells that this block has just been     *)
(* rolled back, and hist.emitting lists the indexings of a mint by an      *)
(* updater that has an event sender.  hist.again holds the transactions    *)
(* handed to index_tx while the stored mempool set already held them, and  *)
(* hist.calls the txids a TransactionUpdate was told were added and        *)
(* removed, in either domain.                                              *)
(***************************************************************************)
NoHist ==
  [recovered |-> FALSE, stage |-> [t \in MempoolTxids |-> 0],
   applied |-> <<>>, rolled |-> FALSE, emitting |-> <<>>,
   again |-> {},
   calls |-> [added |-> {}, removed |-> {},
              block_adds |-> [t \in MempoolTxids |-> 0],
              block_removes |-> [t \in MempoolTxids |-> 0]]]

\* the store records a pending mint of the transaction
PendingMint(d, t) ==
  /\ t \in d.mempool
  /\ Has(d.mempool_tx_state_changes, t)
  /\ d.mempool_tx_state_changes[t].minted # NoMint

\* after a step of update_to_tip that took the store from d to d1
HistBlocks(h, d, d1) ==
  [h EXCEPT !.stage =
     [t \in MempoolTxids |->
        IF Has(d1.tx_state_changes, t) /\ ~Has(d.tx_state_changes, t)
        THEN (IF h.stage[t] = 1 /\ PendingMint(d, t) THEN 2 ELSE 4)
        ELSE h.stage[t]]]

\* after a mempool tick that took the store from d to d1
HistTick(h, d, d1) ==
  [h EXCEPT !.stage =
     [t \in MempoolTxids |->
        CASE h.stage[t] = 0 /\ PendingMint(d1, t) /\ ~Has(d.tx_state_changes, t) -> 1
          [] h.stage[t] = 0 /\ t \in d1.mempool /\ ~PendingMint(d1, t) -> 4
          [] h.stage[t] = 1 /\ ~PendingMint(d1, t) -> 4
          [] h.stage[t] = 2 -> 3
          [] OTHER -> h.stage[t]]]

(***************************************************************************)
(* Initial state: an empty store, an empty chain, the updater not at tip.  *)
(***************************************************************************)
InitWith(depths, intervals) ==
  /\ settings \in [max_recoverable_reorg_depth : depths,
                   commit_interval : intervals,
                   index_spent_outputs : {FALSE}]
  /\ chain = <<>>
  /\ node_mempool = {}
  /\ node_hist = [reorgs |-> 0, relayed |-> {}]
  /\ db = EmptyStore
  /\ is_at_tip = FALSE
  /\ ut = UtIdle
  /\ result = NoResult
  /\ events = <<>>
  /\ mp = MpIdle
  /\ store_lock = StoreWithLock_new
  /\ reader = NoReading
  /\ tx_update = TransactionUpdate_default
  /\ tcp = TcpSubscriptionManager_new
  /\ addr = AddressUpdater_new
  /\ rune_pair = NoPair
  /\ shutdown_flag = FALSE
  /\ alkanes = AlkanesRocksDBStore_new(EmptyMap)
  /\ hist = NoHist

(***************************************************************************)
(* The node: it mines, drops its tip block for a competing branch, and     *)
(* accepts and evicts transactions.                                        *)
(***************************************************************************)
NodeMine(genesis, choices, nonces, max_height) ==
  /\ Len(chain) < max_height
  /\ \E txs \in (IF chain = <<>> THEN genesis ELSE BlockTxs(chain, choices)),
        nonce \in nonces :
       /\ chain' = Append(chain, [nonce |-> nonce, txs |-> txs])
       /\ node_mempool' = node_mempool \ Range(txs)
  /\ UNCHANGED <<mp, reader, store_lock, tx_update>>
  /\ UNCHANGED SideVars
  /\ UNCHANGED <<settings, node_hist, db, is_at_tip, ut, result, events, hist>>

NodeReorg ==
  /\ node_hist.reorgs < MaxReorgs
  /\ \E depth \in 1..(Len(chain) - 1) :
       LET rest == SubSeq(chain, 1, Len(chain) - depth)
       IN /\ chain' = rest
          /\ node_mempool' = {t \in node_mempool : Parents(t) \subseteq ChainTxs(rest)}
  /\ node_hist' = [node_hist EXCEPT !.reorgs = @ + 1]
  /\ UNCHANGED <<mp, reader, store_lock, tx_update>>
  /\ UNCHANGED SideVars
  /\ UNCHANGED <<settings, db, is_at_tip, ut, result, events, hist>>

\* the node accepts a transaction it has not relayed before
NodeMempoolAdd ==
  /\ Cardinality(node_mempool) < MaxMempool
  /\ \E t \in MempoolTxids \ (ChainTxs(chain) \cup node_hist.relayed) :
       /\ Parents(t) \subseteq ChainTxs(chain) \cup node_mempool
       /\ node_mempool' = node_mempool \cup {t}
       /\ node_hist' = [node_hist EXCEPT !.relayed = @ \cup {t}]
  /\ UNCHANGED <<mp, reader, store_lock, tx_update>>
  /\ UNCHANGED SideVars
  /\ UNCHANGED <<settings, chain, db, is_at_tip, ut, result, events, hist>>

NodeMempoolRemove ==
  /\ \E t \in node_mempool :
       /\ \A c \in node_mempool : t \notin Parents(c)
       /\ node_mempool' = node_mempool \ {t}
  /\ UNCHANGED <<mp, reader, store_lock, tx_update>>
  /\ UNCHANGED SideVars
  /\ UNCHANGED <<settings, chain, node_hist, db, is_at_tip, ut, result, events, hist>>

(***************************************************************************)
(* Updater::update_to_tip, one action per suspension point: the start of   *)
(* the call, the receipt of one fetched block, and the end of one batch    *)
(* of fetched blocks.                                                      *)
(***************************************************************************)
\* return Err(e): the cache is dropped without a flush
UtReturn(e) ==
  /\ ut' = UtIdle
  /\ result' = e

\* the end of update_to_tip as it would be if it did not look at the
\* shutdown flag before setting is_at_tip
UtFinish_at_tip(cache) ==
  LET f == flush(cache, db, settings.max_recoverable_reorg_depth,
                 settings.index_spent_outputs)
  IN IF f.ok
     THEN /\ db' = f.db
          /\ is_at_tip' = TRUE
          /\ UtReturn(Ok)
     ELSE /\ UNCHANGED <<db, is_at_tip>>
          /\ UtReturn([kind |-> "db_error"])

\* lines 217-224: the final flush, then is_at_tip is set unless the shutdown
\* flag is
UtFinish(cache) ==
  LET f == flush(cache, db, settings.max_recoverable_reorg_depth,
                 settings.index_spent_outputs)
  IN IF f.ok
     THEN /\ db' = f.db
          /\ is_at_tip' = IF shutdown_flag THEN is_at_tip ELSE TRUE
          /\ UtReturn(Ok)
     ELSE /\ UNCHANGED <<db, is_at_tip>>
          /\ UtReturn([kind |-> "db_error"])

\* lines 148-161: one more batch of blocks to fetch
UtFetch(cache, bitcoin_block_count) ==
  /\ ut' = [pc |-> "recv", cache |-> cache, was_at_tip |-> is_at_tip,
            bitcoin_block_count |-> bitcoin_block_count]
  /\ is_at_tip' = FALSE
  /\ UNCHANGED <<db, result>>

UpdateToTipStart ==
  /\ ut.pc = "idle"
  /\ ~is_halted(result)
  /\ LET cache == UpdaterCache_new(db, FALSE)
     IN IF rpc_get_block_count > get_block_count(cache)
        THEN UtFetch(cache, rpc_get_block_count)
        ELSE UtFinish(cache)
  /\ hist' = HistBlocks(hist, db, db')
  /\ UNCHANGED <<mp, reader, store_lock, tx_update>>
  /\ UNCHANGED SideVars
  /\ UNCHANGED <<settings, chain, node_mempool, node_hist, events>>

\* lines 187-202: index the block, stage it, flush when the window is full
UtIndex(block, height) ==
  LET ib == IF height < FirstRuneHeight
            THEN [st |-> [ok |-> TRUE, cache |-> ut.cache, events |-> <<>>],
                  block |-> empty_block(height, block.header)]
            ELSE index_block(ut.cache, db, block, height)
      c1 == set_new_block(ib.st.cache, ib.block)
      f == flush(c1, db, settings.max_recoverable_reorg_depth,
                 settings.index_spent_outputs)
  IN IF ~ib.st.ok
     THEN /\ UtReturn([kind |-> "transaction_updater_error"])
          /\ UNCHANGED <<db, is_at_tip, events>>
     ELSE /\ events' = events \o ib.st.events
          /\ IF ~should_flush(c1, settings.commit_interval)
             THEN /\ ut' = [ut EXCEPT !.cache = c1]
                  /\ UNCHANGED <<db, is_at_tip, result>>
             ELSE IF f.ok
                  THEN /\ ut' = [ut EXCEPT !.cache = f.cache]
                       /\ db' = f.db
                       /\ UNCHANGED <<is_at_tip, result>>
                  ELSE /\ UtReturn([kind |-> "db_error"])
                       /\ UNCHANGED <<db, is_at_tip>>

\* lines 163-205: one block received from the fetcher, the shutdown flag
\* not set
UpdateToTipBlock ==
  /\ ut.pc = "recv"
  /\ ~shutdown_flag
  /\ LET height == get_block_count(ut.cache)
     IN /\ height < ut.bitcoin_block_count
        /\ height < Len(chain)
        /\ LET block == node_block(height)
               reorg == IF ut.was_at_tip
                        THEN detect_reorg(db, block, height,
                                          settings.max_recoverable_reorg_depth)
                        ELSE Ok
               h == handle_reorg(db, reorg.height, reorg.depth)
           IN IF reorg.kind = "recoverable"
              THEN /\ db' = h.db
                   /\ is_at_tip' = FALSE
                   /\ UtReturn(IF h.ok THEN reorg ELSE [kind |-> "rollback_error"])
                   /\ UNCHANGED events
              ELSE IF reorg.kind # "ok"
              THEN /\ UtReturn(reorg)
                   /\ UNCHANGED <<db, is_at_tip, events>>
              ELSE UtIndex(block, height)
  /\ hist' = [HistBlocks(hist, db, db') EXCEPT
                !.recovered = @ \/ result'.kind = "recoverable"]
  /\ UNCHANGED <<mp, reader, store_lock, tx_update>>
  /\ UNCHANGED SideVars
  /\ UNCHANGED <<settings, chain, node_mempool, node_hist>>

\* lines 207-224: the fetcher's channel is closed; look at the node again
UpdateToTipBatchEnd ==
  /\ ut.pc = "recv"
  /\ \/ get_block_count(ut.cache) >= ut.bitcoin_block_count
     \/ get_block_count(ut.cache) >= Len(chain)
  /\ IF shutdown_flag
     THEN UtFinish(ut.cache)
     ELSE IF rpc_get_block_count > get_block_count(ut.cache)
          THEN UtFetch(ut.cache, rpc_get_block_count)
          ELSE UtFinish(ut.cache)
  /\ hist' = HistBlocks(hist, db, db')
  /\ UNCHANGED <<mp, reader, store_lock, tx_update>>
  /\ UNCHANGED SideVars
  /\ UNCHANGED <<settings, chain, node_mempool, node_hist, events>>

(***************************************************************************)
(* Updater::index_mempool: one mempool tick.  A tick that finds nothing    *)
(* new and nothing removed changes nothing and is left out.                *)
(***************************************************************************)
MempoolTick ==
  LET new_txs == node_mempool \ db.mempool
      removed_txs == db.mempool \ node_mempool
  IN /\ new_txs # {} \/ removed_txs # {}
     /\ \E tx_order \in TxOrders(new_txs), removed \in Orders(removed_txs) :
          LET st == index_txs([ok |-> TRUE, cache |-> UpdaterCache_new(db, TRUE),
                               events |-> <<>>], db, tx_order)
              f == flush(st.cache, db, settings.max_recoverable_reorg_depth,
                         settings.index_spent_outputs)
              d1 == IF new_txs = {} THEN db ELSE f.db
              r == remove_txs([ok |-> TRUE, db |-> d1], removed, TRUE)
          IN IF new_txs # {} /\ ~st.ok
             THEN UNCHANGED <<db, events>>
             ELSE /\ db' = r.db
                  /\ events' = events \o (IF new_txs = {} THEN <<>> ELSE st.events)
     /\ hist' = HistTick(hist, db, db')
     /\ UNCHANGED <<mp, reader, store_lock, tx_update>>
     /\ UNCHANGED SideVars
     /\ UNCHANGED <<settings, chain, node_mempool, node_hist, is_at_tip, ut, result>>

(***************************************************************************)
(* Updater::index_mempool step by step, as other threads see it: the diff  *)
(* of the node's mempool against the stored one (taken before the          *)
(* mempool_indexing mutex), the indexing of the new transactions (under    *)
(* the mutex, which is released when the block ends) and the removal.      *)
(* Updater::index_new_tx takes the same mutex for the whole call.  Each    *)
(* critical section is one step, so two of them never overlap;             *)
(* update_to_tip does not take the mutex and its steps run in between.     *)
(***************************************************************************)
\* lines 234-254: current_mempool, stored_mempool, new_txs, removed_txs
MempoolTickStart ==
  /\ mp.pc = "idle"
  /\ LET new_txs == node_mempool \ db.mempool
         removed_txs == db.mempool \ node_mempool
     IN /\ new_txs # {} \/ removed_txs # {}
        /\ mp' = [pc |-> IF new_txs # {} THEN "index" ELSE "remove",
                  new_txs |-> new_txs, removed_txs |-> removed_txs]
  /\ UNCHANGED SideVars
  /\ UNCHANGED <<settings, chain, node_mempool, node_hist, db, is_at_tip, ut, result,
                 events, store_lock, reader, tx_update, hist>>

\* lines 257-277: the new transactions are indexed in one mempool cache
MempoolTickIndex ==
  /\ mp.pc = "index"
  /\ \E tx_order \in TxOrders(mp.new_txs) :
       LET st == index_txs([ok |-> TRUE, cache |-> UpdaterCache_new(db, TRUE),
                            events |-> <<>>], db, tx_order)
           f == flush(st.cache, db, settings.max_recoverable_reorg_depth,
                      settings.index_spent_outputs)
       IN IF ~st.ok
          THEN /\ mp' = MpIdle
               /\ UNCHANGED <<db, events>>
          ELSE /\ db' = f.db
               /\ events' = events \o st.events
               /\ mp' = IF mp.removed_txs = {} THEN MpIdle
                        ELSE [mp EXCEPT !.pc = "remove"]
  /\ hist' = [HistTick(hist, db, db') EXCEPT
                !.again = @ \cup (mp.new_txs \cap db.mempool)]
  /\ UNCHANGED SideVars
  /\ UNCHANGED <<settings, chain, node_mempool, node_hist, is_at_tip, ut, result,
                 store_lock, reader, tx_update>>

\* lines 279-282: remove_txs(removed_txs, true)
MempoolTickRemove ==
  /\ mp.pc = "remove"
  /\ \E removed \in Orders(mp.removed_txs) :
       db' = remove_txs([ok |-> TRUE, db |-> db], removed, TRUE).db
  /\ mp' = MpIdle
  /\ hist' = HistTick(hist, db, db')
  /\ UNCHANGED SideVars
  /\ UNCHANGED <<settings, chain, node_mempool, node_hist, is_at_tip, ut, result,
                 events, store_lock, reader, tx_update>>

\* Updater::index_new_tx for a transaction the node has accepted
IndexNewTx ==
  /\ \E txid \in node_mempool :
       LET st == index_tx([ok |-> TRUE, cache |-> UpdaterCache_new(db, TRUE),
                           events |-> <<>>], db, txid)
           f == flush(st.cache, db, settings.max_recoverable_reorg_depth,
                      settings.index_spent_outputs)
       IN /\ IF ~st.ok THEN UNCHANGED <<db, events>>
             ELSE /\ db' = f.db
                  /\ events' = events \o st.events
          /\ hist' = [HistTick(hist, db, db') EXCEPT
                        !.again = @ \cup ({txid} \cap db.mempool)]
  /\ UNCHANGED SideVars
  /\ UNCHANGED <<settings, chain, node_mempool, node_hist, is_at_tip, ut, result,
                 mp, store_lock, reader, tx_update>>

\* the indexer over a node whose blocks carry rune transactions
Init == InitWith({MaxReorgDepthSetting}, {1})

\* the first block carries the etching, so that the rune is <<0, 0>>
NodeMineTxs == NodeMine({<<"Te">>}, BlockChoices, {0}, MaxHeight)

Next ==
  \/ NodeMineTxs
  \/ NodeReorg
  \/ NodeMempoolAdd
  \/ NodeMempoolRemove
  \/ UpdateToTipStart
  \/ UpdateToTipBlock
  \/ UpdateToTipBatchEnd
  \/ MempoolTick

Spec == Init /\ [][Next]_vars

\* the indexer over a node whose chain is never reorganised
NextMempool ==
  \/ NodeMineTxs
  \/ NodeMempoolAdd
  \/ NodeMempoolRemove
  \/ UpdateToTipStart
  \/ UpdateToTipBlock
  \/ UpdateToTipBatchEnd
  \/ MempoolTick

SpecMempool == Init /\ [][NextMempool]_vars

\* the block pipeline, the mempool pipeline step by step and index_new_tx,
\* on a chain that is never reorganised
NodeMineFew == NodeMine({<<"Te">>}, BlockChoices, {0}, MaxPipelineHeight)

NextPipelines ==
  \/ NodeMineFew
  \/ NodeMempoolAdd
  \/ NodeMempoolRemove
  \/ UpdateToTipStart
  \/ UpdateToTipBlock
  \/ UpdateToTipBatchEnd
  \/ MempoolTickStart
  \/ MempoolTickIndex
  \/ MempoolTickRemove
  \/ IndexNewTx

\* every block is flushed when it is indexed (commit_interval = 1)
SpecNewTx == Init /\ [][NextPipelines]_vars

\* the block pipeline keeps a window of two blocks before it flushes
InitWindow == InitWith({MaxReorgDepthSetting}, {2})

SpecWindow == InitWindow /\ [][NextPipelines]_vars

(***************************************************************************)
(* Old blocks purged.  The node mines up to MaxPurgeHeight blocks and the  *)
(* recoverable depth is small, so that prepare_to_delete has blocks to     *)
(* purge; spent outputs are kept or not.                                   *)
(***************************************************************************)
InitPurge ==
  /\ settings \in [max_recoverable_reorg_depth : {1, 2},
                   commit_interval : 1..MaxCommitInterval,
                   index_spent_outputs : BOOLEAN]
  /\ chain = <<>>
  /\ node_mempool = {}
  /\ node_hist = [reorgs |-> 0, relayed |-> {}]
  /\ db = EmptyStore
  /\ is_at_tip = FALSE
  /\ ut = UtIdle
  /\ result = NoResult
  /\ events = <<>>
  /\ mp = MpIdle
  /\ store_lock = StoreWithLock_new
  /\ reader = NoReading
  /\ tx_update = TransactionUpdate_default
  /\ tcp = TcpSubscriptionManager_new
  /\ addr = AddressUpdater_new
  /\ rune_pair = NoPair
  /\ shutdown_flag = FALSE
  /\ alkanes = AlkanesRocksDBStore_new(EmptyMap)
  /\ hist = NoHist

NodeMineMany == NodeMine({<<"Te">>}, BlockChoices, {0}, MaxPurgeHeight)

NextPurge ==
  \/ NodeMineMany
  \/ UpdateToTipStart
  \/ UpdateToTipBlock
  \/ UpdateToTipBatchEnd

SpecPurge == InitPurge /\ [][NextPurge]_vars

(***************************************************************************)
(* Purge and reorganisation together: few kinds of block, and a chain     *)
(* long enough for a block to be purged and a fork to be noticed           *)
(* afterwards.                                                             *)
(***************************************************************************)
NodeMineDeep ==
  NodeMine({<<"Te">>}, {<<>>, <<"Tm1">>}, {0}, MaxReorgDepthSetting + 4)

NextDeep ==
  \/ NodeMineDeep
  \/ NodeReorg
  \/ UpdateToTipStart
  \/ UpdateToTipBlock
  \/ UpdateToTipBatchEnd

SpecDeep == Init /\ [][NextDeep]_vars

(***************************************************************************)
(* The flush as other threads and a crash see it: the BatchUpdate commit   *)
(* and the BatchDelete commit are two steps.  Every block is flushed when  *)
(* it is indexed (commit_interval = 1), so the final flush of              *)
(* update_to_tip finds nothing staged and commits nothing.                 *)
(***************************************************************************)
InitCommits ==
  /\ InitPurge
  /\ settings.max_recoverable_reorg_depth = 1
  /\ settings.commit_interval = 1

\* lines 187-202 with the flush stopped after its first commit
UtIndexUpdate(block, height) ==
  LET ib == IF height < FirstRuneHeight
            THEN [st |-> [ok |-> TRUE, cache |-> ut.cache, events |-> <<>>],
                  block |-> empty_block(height, block.header)]
            ELSE index_block(ut.cache, db, block, height)
      c1 == set_new_block(ib.st.cache, ib.block)
      f == flush_update(c1, db, settings.max_recoverable_reorg_depth,
                        settings.index_spent_outputs)
  IN IF ~ib.st.ok
     THEN /\ UtReturn([kind |-> "transaction_updater_error"])
          /\ UNCHANGED <<db, is_at_tip, events>>
     ELSE /\ events' = events \o ib.st.events
          /\ IF ~should_flush(c1, settings.commit_interval)
             THEN /\ ut' = [ut EXCEPT !.cache = c1]
                  /\ UNCHANGED <<db, is_at_tip, result>>
             ELSE IF ~f.ok
                  THEN /\ UtReturn([kind |-> "db_error"])
                       /\ UNCHANGED <<db, is_at_tip>>
                  ELSE /\ StoreWithLock_write(store_lock).granted
                       /\ db' = f.db
                       /\ ut' = IF BatchDelete_is_empty(f.cache.delete)
                                THEN [ut EXCEPT !.cache = flush_delete(f.cache, f.db).cache]
                                ELSE [ut EXCEPT !.pc = "delete", !.cache = f.cache]
                       /\ UNCHANGED <<is_at_tip, result>>

\* lines 163-205: one block received; its flush has made its first commit
UpdateToTipBlockUpdate ==
  /\ ut.pc = "recv"
  /\ LET height == get_block_count(ut.cache)
     IN /\ height < ut.bitcoin_block_count
        /\ height < Len(chain)
        /\ LET block == node_block(height)
               reorg == IF ut.was_at_tip
                        THEN detect_reorg(db, block, height,
                                          settings.max_recoverable_reorg_depth)
                        ELSE Ok
               h == handle_reorg(db, reorg.height, reorg.depth)
           IN IF reorg.kind = "recoverable"
              THEN /\ db' = h.db
                   /\ is_at_tip' = FALSE
                   /\ UtReturn(IF h.ok THEN reorg ELSE [kind |-> "rollback_error"])
                   /\ UNCHANGED events
              ELSE IF reorg.kind # "ok"
              THEN /\ UtReturn(reorg)
                   /\ UNCHANGED <<db, is_at_tip, events>>
              ELSE UtIndexUpdate(block, height)
  /\ hist' = [HistBlocks(hist, db, db') EXCEPT
                !.recovered = @ \/ result'.kind = "recoverable"]
  /\ store_lock' = StoreWithLock_write(store_lock).lock
  /\ UNCHANGED SideVars
  /\ UNCHANGED <<settings, chain, node_mempool, node_hist, mp, reader, tx_update>>

\* cache.rs lines 382-396: the second commit of the flush, then the window
\* is cleared and update_to_tip goes on
UpdateToTipBlockDelete ==
  /\ ut.pc = "delete"
  /\ LET f == flush_delete(ut.cache, db)
     IN /\ db' = f.db
        /\ ut' = [ut EXCEPT !.pc = "recv", !.cache = f.cache]
  /\ hist' = HistBlocks(hist, db, db')
  /\ UNCHANGED SideVars
  /\ UNCHANGED <<settings, chain, node_mempool, node_hist, is_at_tip, result, events,
                 mp, store_lock, reader, tx_update>>

\* a reading thread: StoreWithLock::read, then point reads of the store
StoreRead ==
  /\ StoreWithLock_read(store_lock).granted
  /\ store_lock' = StoreWithLock_read(store_lock).lock
  /\ reader' = <<[purged_blocks_count |-> db.purged_blocks_count,
                  tx_state_changes |-> DOMAIN db.tx_state_changes]>>
  /\ UNCHANGED SideVars
  /\ UNCHANGED <<settings, chain, node_mempool, node_hist, db, is_at_tip, ut, result,
                 events, mp, tx_update, hist>>

\* the process is killed while update_to_tip runs and is started again
\* (Updater::new); the store keeps what was committed
Crash ==
  /\ ut.pc # "idle"
  /\ ut' = UtIdle
  /\ is_at_tip' = FALSE
  /\ result' = NoResult
  /\ UNCHANGED SideVars
  /\ UNCHANGED <<settings, chain, node_mempool, node_hist, db, events, mp, store_lock,
                 reader, tx_update, hist>>

NextCommits ==
  \/ NodeMineMany
  \/ UpdateToTipStart
  \/ UpdateToTipBlockUpdate
  \/ UpdateToTipBlockDelete
  \/ UpdateToTipBatchEnd
  \/ StoreRead
  \/ Crash

SpecCommits == InitCommits /\ [][NextCommits]_vars

(***************************************************************************)
(* TransactionUpdate: the txids one update cycle added to and removed from *)
(* the mempool and the chain.  hist.calls collects what the object was     *)
(* told since TransactionUpdate::new, in either domain, and how many times *)
(* each txid was added to and removed from blocks.                         *)
(***************************************************************************)
TransactionChangeSet(added, removed) == [added |-> added, removed |-> removed]

TransactionUpdate_new(mempool, block) ==
  [mempool_added |-> mempool.added, mempool_removed |-> mempool.removed,
   block_added |-> block.added, block_removed |-> block.removed,
   block_added_counts |-> [t \in block.added |-> 1],
   block_removed_counts |-> [t \in block.removed |-> 1]]

\* a HashMap entry, 0 where there is none
CountOf(m, txid) == IF Has(m, txid) THEN m[txid] ELSE 0

\* a HashMap entry .or_insert(0) incremented
CountUp(m, txid) == Put(m, txid, CountOf(m, txid) + 1)

add_block_tx(u, txid) ==
  [u EXCEPT !.block_added = @ \cup {txid},
            !.block_added_counts = CountUp(@, txid)]

remove_block_tx(u, txid) ==
  [u EXCEPT !.block_removed = @ \cup {txid},
            !.block_removed_counts = CountUp(@, txid)]

update_mempool(u, mempool) ==
  [u EXCEPT !.mempool_added = @ \cup mempool.added,
            !.mempool_removed = @ \cup mempool.removed]

\* categorize_to_change_set as it would be if each domain were netted on its own
categorize_per_domain(u) ==
  TransactionChangeSet(
    (u.mempool_added \ u.mempool_removed) \cup (u.block_added \ u.block_removed),
    (u.mempool_removed \ u.mempool_added) \cup (u.block_removed \ u.block_added))

categorize_to_change_set(u) ==
  LET in_added == u.mempool_added \cup u.block_added
      in_removed == u.mempool_removed \cup u.block_removed
  IN TransactionChangeSet(in_added \ in_removed, in_removed \ in_added)

\* block_added_after_mined_and_reorg as it would be if a txid re-mined as
\* often as it was reorged out were flagged too
block_added_after_any_reorg(u) ==
  {txid \in DOMAIN u.block_added_counts :
     /\ Has(u.block_removed_counts, txid)
     /\ u.block_removed_counts[txid] > 0
     /\ u.block_added_counts[txid] >= u.block_removed_counts[txid]}

block_added_after_mined_and_reorg(u) ==
  {txid \in DOMAIN u.block_added_counts :
     /\ Has(u.block_removed_counts, txid)
     /\ u.block_removed_counts[txid] > 0
     /\ u.block_added_counts[txid] > u.block_removed_counts[txid]}

ChangeSets == [added : SUBSET MempoolTxids, removed : SUBSET MempoolTxids]

TxUpdateNew ==
  /\ \E mempool \in ChangeSets, block \in ChangeSets :
       /\ tx_update' = TransactionUpdate_new(mempool, block)
       /\ hist' = [hist EXCEPT !.calls =
                     [added |-> mempool.added \cup block.added,
                      removed |-> mempool.removed \cup block.removed,
                      block_adds |-> [t \in MempoolTxids |->
                                        IF t \in block.added THEN 1 ELSE 0],
                      block_removes |-> [t \in MempoolTxids |->
                                           IF t \in block.removed THEN 1 ELSE 0]]]
  /\ UNCHANGED SideVars
  /\ UNCHANGED <<settings, chain, node_mempool, node_hist, db, is_at_tip, ut, result,
                 events, mp, store_lock, reader>>

TxUpdateAddBlockTx ==
  /\ \E txid \in MempoolTxids :
       /\ CountOf(tx_update.block_added_counts, txid) < MaxTxCount
       /\ tx_update' = add_block_tx(tx_update, txid)
       /\ hist' = [hist EXCEPT !.calls.added = @ \cup {txid},
                               !.calls.block_adds[txid] = @ + 1]
  /\ UNCHANGED SideVars
  /\ UNCHANGED <<settings, chain, node_mempool, node_hist, db, is_at_tip, ut, result,
                 events, mp, store_lock, reader>>

TxUpdateRemoveBlockTx ==
  /\ \E txid \in MempoolTxids :
       /\ CountOf(tx_update.block_removed_counts, txid) < MaxTxCount
       /\ tx_update' = remove_block_tx(tx_update, txid)
       /\ hist' = [hist EXCEPT !.calls.removed = @ \cup {txid},
                               !.calls.block_removes[txid] = @ + 1]
  /\ UNCHANGED SideVars
  /\ UNCHANGED <<settings, chain, node_mempool, node_hist, db, is_at_tip, ut, result,
                 events, mp, store_lock, reader>>

TxUpdateMempool ==
  /\ \E mempool \in ChangeSets :
       /\ tx_update' = update_mempool(tx_update, mempool)
       /\ hist' = [hist EXCEPT !.calls.added = @ \cup mempool.added,
                               !.calls.removed = @ \cup mempool.removed]
  /\ UNCHANGED SideVars
  /\ UNCHANGED <<settings, chain, node_mempool, node_hist, db, is_at_tip, ut, result,
                 events, mp, store_lock, reader>>

\* a caller takes the change set; events holds the one taken last
TxUpdateCategorize ==
  /\ events' = <<categorize_to_change_set(tx_update)>>
  /\ UNCHANGED SideVars
  /\ UNCHANGED <<settings, chain, node_mempool, node_hist, db, is_at_tip, ut, result,
                 mp, store_lock, reader, tx_update, hist>>

NextChangeSet ==
  \/ TxUpdateNew
  \/ TxUpdateAddBlockTx
  \/ TxUpdateRemoveBlockTx
  \/ TxUpdateMempool
  \/ TxUpdateCategorize

SpecChangeSet == Init /\ [][NextChangeSet]_vars

\* a caller takes the re-mined txids; events holds the set taken last
TxUpdateRemined ==
  /\ events' = <<block_added_after_mined_and_reorg(tx_update)>>
  /\ UNCHANGED SideVars
  /\ UNCHANGED <<settings, chain, node_mempool, node_hist, db, is_at_tip, ut, result,
                 mp, store_lock, reader, tx_update, hist>>

NextRemined ==
  \/ TxUpdateNew
  \/ TxUpdateAddBlockTx
  \/ TxUpdateRemoveBlockTx
  \/ TxUpdateRemined

SpecRemined == Init /\ [][NextRemined]_vars

(***************************************************************************)
(* The updater driven step by step: one block applied, one mempool         *)
(* transaction indexed or removed, the tip block rolled back.  The updater *)
(* is built with or without an event sender.                               *)
(***************************************************************************)
\* the mints among the parsed transactions, as [txid, in_mempool]
Minting(block_data, mempool) ==
  LET mints == SelectSeq(block_data, LAMBDA e : e.result.minted # NoMint)
  IN [i \in DOMAIN mints |-> [txid |-> mints[i].txid, in_mempool |-> mempool]]

\* update_to_tip for one block: index_block, set_new_block, flush
DrvBlock(sender) ==
  LET height == db.block_count
  IN /\ height < MaxHeight
     /\ \E txs \in (IF height < Len(chain) THEN {chain[height + 1].txs}
                    ELSE IF height = 0 THEN {<<"Te">>}
                    ELSE BlockTxs(chain, BlockChoices)) :
          LET ch == IF height < Len(chain) THEN chain
                    ELSE Append(chain, [nonce |-> 0, txs |-> txs])
              block == [header |-> Header(SubSeq(ch, 1, height), 0, txs), txdata |-> txs]
              c == UpdaterCache_new(db, FALSE)
              block_data == parse_block(c, db, height, txs, 1)
              ib == save_block([ok |-> TRUE, cache |-> c, events |-> <<>>], db,
                               TransactionUpdater_new(sender, FALSE), height,
                               block_data, empty_block(height, block.header))
              f == flush(set_new_block(ib.st.cache, ib.block), db,
                         settings.max_recoverable_reorg_depth,
                         settings.index_spent_outputs)
          IN /\ ib.st.ok /\ f.ok
             /\ chain' = ch
             /\ node_mempool' = node_mempool \ Range(txs)
             /\ db' = f.db
             /\ events' = events \o ib.st.events
             /\ hist' = [HistBlocks(hist, db, f.db) EXCEPT
                           !.applied = <<db>>, !.rolled = FALSE,
                           !.emitting = IF sender
                                        THEN @ \o Minting(block_data, FALSE) ELSE @]
     /\ UNCHANGED <<mp, reader, store_lock, tx_update>>
     /\ UNCHANGED SideVars
     /\ UNCHANGED <<settings, node_hist, is_at_tip, ut, result>>

\* index_mempool for one new transaction: index_tx, flush
DrvMempoolTx(sender) ==
  \E t \in MempoolTxids \ (ChainTxs(chain) \cup node_hist.relayed) :
     LET c == UpdaterCache_new(db, TRUE)
         height == get_block_count(c)
         change == index_runes(c, db, height, 0, t)
         st == [ok |-> TRUE, cache |-> c, events |-> <<>>]
         st1 == IF has_rune_updates(change)
                THEN save(st, db, TransactionUpdater_new(sender, TRUE), height, t, change)
                ELSE st
         f == flush(set_mempool_tx(st1.cache, t), db,
                    settings.max_recoverable_reorg_depth, settings.index_spent_outputs)
     IN /\ Parents(t) \subseteq ChainTxs(chain)
        /\ st1.ok /\ f.ok
        /\ node_mempool' = node_mempool \cup {t}
        /\ node_hist' = [node_hist EXCEPT !.relayed = @ \cup {t}]
        /\ db' = f.db
        /\ events' = events \o st1.events
        /\ hist' = [hist EXCEPT
                      !.stage[t] = IF PendingMint(f.db, t) THEN 1 ELSE 4,
                      !.applied = <<>>, !.rolled = FALSE,
                      !.emitting =
                         IF sender /\ has_rune_updates(change) /\ change.minted # NoMint
                         THEN Append(@, [txid |-> t, in_mempool |-> TRUE]) ELSE @]
        /\ UNCHANGED <<mp, reader, store_lock, tx_update>>
        /\ UNCHANGED SideVars
        /\ UNCHANGED <<settings, chain, is_at_tip, ut, result>>

\* index_mempool for one transaction that left the node's mempool: remove_txs
DrvRemoveTx ==
  \E t \in db.mempool :
     LET r == remove_txs([ok |-> TRUE, db |-> db], <<t>>, TRUE)
     IN /\ r.ok
        /\ node_mempool' = node_mempool \ {t}
        /\ db' = r.db
        /\ hist' = [hist EXCEPT !.stage[t] = IF @ = 2 THEN 3 ELSE 4,
                                !.applied = <<>>, !.rolled = FALSE]
        /\ UNCHANGED <<mp, reader, store_lock, tx_update>>
        /\ UNCHANGED SideVars
        /\ UNCHANGED <<settings, chain, node_hist, is_at_tip, ut, result, events>>

\* the node replaces its tip block and handle_reorg rolls the indexed one back
DrvRollback ==
  /\ node_hist.reorgs < MaxReorgs
  /\ db.block_count >= 2
  /\ db.block_count = Len(chain)
  /\ LET h == handle_reorg(db, db.block_count, 2)
     IN /\ h.ok
        /\ db' = h.db
  /\ chain' = SubSeq(chain, 1, Len(chain) - 1)
  /\ node_hist' = [node_hist EXCEPT !.reorgs = @ + 1]
  /\ hist' = [hist EXCEPT !.recovered = TRUE, !.rolled = (hist.applied # <<>>)]
  /\ UNCHANGED <<mp, reader, store_lock, tx_update>>
  /\ UNCHANGED SideVars
  /\ UNCHANGED <<settings, node_mempool, is_at_tip, ut, result, events>>

\* the updater with and without an event sender, on a chain that stays
NextUpdater ==
  \/ \E sender \in BOOLEAN : DrvBlock(sender)
  \/ \E sender \in BOOLEAN : DrvMempoolTx(sender)
  \/ DrvRemoveTx

SpecUpdater == Init /\ [][NextUpdater]_vars

\* the updater as index_block and index_tx build it, with rollbacks
NextRollback ==
  \/ DrvBlock(FALSE)
  \/ DrvMempoolTx(FALSE)
  \/ DrvRemoveTx
  \/ DrvRollback

SpecRollback == Init /\ [][NextRollback]_vars

\* the indexer over a node that mines empty blocks, for every setting of the
\* reorg depth, flushing every block or every MaxCommitInterval blocks
InitHeaders == InitWith(1..MaxReorgDepthSetting, {1, MaxCommitInterval})

\* two nonces tell two competing empty blocks of one height apart
Nonces == {0, 1}

NodeMineEmpty == NodeMine({<<>>}, {<<>>}, Nonces, MaxHeaderHeight)

NextHeaders ==
  \/ NodeMineEmpty
  \/ NodeReorg
  \/ UpdateToTipStart
  \/ UpdateToTipBlock
  \/ UpdateToTipBatchEnd

SpecHeaders == InitHeaders /\ [][NextHeaders]_vars

(***************************************************************************)
(* Quantities the properties are stated in.                                *)
(***************************************************************************)
\* the units of a rune on the confirmed, unspent outpoints
Circulating(d, id) ==
  LET unspent == {p \in DOMAIN d.txouts : ~d.txouts[p].spent}
  IN SetSum([o \in unspent |-> BalGet(d.txouts[o].runes, id)], unspent)

\* the units one mint of the rune creates
MintAmount(entry) == IF entry.terms = <<>> THEN 0 ELSE entry.terms[1].amount

\* the block the chain ch holds at a height
chain_block(ch, height) ==
  [header |-> Header(SubSeq(ch, 1, height), ch[height + 1].nonce, ch[height + 1].txs),
   txdata |-> ch[height + 1].txs]

\* the store after indexing the chain ch block by block from height on,
\* without any reorganisation
RECURSIVE DirectIndex(_, _, _)
DirectIndex(d, ch, height) ==
  IF height >= Len(ch) THEN d
  ELSE LET ib == index_block(UpdaterCache_new(d, FALSE), d, chain_block(ch, height),
                             height)
           f == flush(set_new_block(ib.st.cache, ib.block), d,
                      settings.max_recoverable_reorg_depth,
                      settings.index_spent_outputs)
       IN DirectIndex(f.db, ch, height + 1)

\* what the indexed state says about blocks, runes and confirmed outpoints
Indexed(d) ==
  [block_count |-> d.block_count, block_hashes |-> d.block_hashes,
   blocks |-> [hh \in {d.block_hashes[i] : i \in DOMAIN d.block_hashes} |->
                 IF Has(d.blocks, hh) THEN <<d.blocks[hh]>> ELSE <<>>],
   rune_count |-> d.rune_count, runes |-> d.runes,
   unspent |-> [o \in {p \in DOMAIN d.txouts : ~d.txouts[p].spent} |->
                  d.txouts[o].runes],
   transactions |-> DOMAIN d.tx_state_changes]

\* update_to_tip has returned with the indexer at the node's tip
Synced ==
  /\ ut.pc = "idle"
  /\ result = Ok
  /\ is_at_tip
  /\ db.block_count = Len(chain)

(***************************************************************************)
(* C1.  Whatever blocks are indexed, a rune's mints never exceed the cap   *)
(* of its terms, also when one block carries several mints of the rune.    *)
(***************************************************************************)
C1_MintsWithinCap ==
  \A id \in DOMAIN db.runes :
     db.runes[id].terms # <<>> => db.runes[id].mints <= db.runes[id].terms[1].cap

(***************************************************************************)
(* C2.  For every rune, the confirmed unspent balances plus the burned     *)
(* units equal the premine plus mints times the amount of one mint.        *)
(***************************************************************************)
C2_SupplyConserved ==
  \A id \in DOMAIN db.runes :
     Circulating(db, id) + db.runes[id].burned
       = db.runes[id].premine + db.runes[id].mints * MintAmount(db.runes[id])

(***************************************************************************)
(* C3.  Once a recoverable reorg has been rolled back and update_to_tip    *)
(* has caught up with the node again, the indexed state is the one that    *)
(* indexing the node's chain directly gives (no mempool traffic involved). *)
(***************************************************************************)
C3_ReorgThenResyncIsCanonical ==
  (hist.recovered /\ Synced /\ node_hist.relayed = {})
    => Indexed(db) = Indexed(DirectIndex(EmptyStore, chain, 0))

(***************************************************************************)
(* C7.  When update_to_tip has returned Recoverable, the store holds no    *)
(* block hash and no block record at a height at or above block_count.     *)
(***************************************************************************)
C7_NothingAtOrAboveBlockCount ==
  (ut.pc = "idle" /\ result.kind = "recoverable")
    => /\ \A h \in DOMAIN db.block_hashes : h < db.block_count
       /\ \A hh \in DOMAIN db.blocks : db.blocks[hh].height < db.block_count

\* update_to_tip, started at tip, is about to receive the block of a height
ReceivingAtTip(height) ==
  /\ ut.pc = "recv"
  /\ ut.was_at_tip
  /\ height = get_block_count(ut.cache)
  /\ height < ut.bitcoin_block_count
  /\ height < Len(chain)

\* how many of the indexer's most recent blocks the node's chain has replaced
Replaced(d) ==
  Cardinality({h \in 0..(d.block_count - 1) :
                 \/ h >= Len(chain)
                 \/ ~Has(d.block_hashes, h)
                 \/ d.block_hashes[h] # rpc_get_block_hash(h)})

\* the hash the indexer recorded for a height: in the cache window, else the store
RecordedHashes(c, d) == Overlay(c.update.block_hashes, d.block_hashes)

ReorgKinds == {"recoverable", "unrecoverable"}

(***************************************************************************)
(* C5.  At tip with nothing pending, when the node has replaced exactly d  *)
(* of the indexed blocks, the next block makes update_to_tip report        *)
(* Recoverable if d = max_recoverable_reorg_depth and Unrecoverable if     *)
(* d = max_recoverable_reorg_depth + 1.                                    *)
(***************************************************************************)
C5_DepthBoundary ==
  [][(/\ ReceivingAtTip(db.block_count)
      /\ get_block_count(ut.cache) = db.block_count
      /\ ut' # ut)
       => /\ Replaced(db) = settings.max_recoverable_reorg_depth
               => result'.kind = "recoverable"
          /\ Replaced(db) = settings.max_recoverable_reorg_depth + 1
               => result'.kind = "unrecoverable"]_vars

(***************************************************************************)
(* C6.  In a cycle started at tip, a block whose prev_blockhash is not the *)
(* hash recorded for the height below it (pending in the cache window or   *)
(* flushed) ends update_to_tip with a reorg error and is not indexed.      *)
(***************************************************************************)
C6_MismatchIsReorgError ==
  [][\A height \in 1..MaxHeaderHeight :
       (/\ ReceivingAtTip(height)
        /\ Has(RecordedHashes(ut.cache, db), height - 1)
        /\ RecordedHashes(ut.cache, db)[height - 1]
             # node_block(height).header.prev_blockhash
        /\ ut' # ut)
         => /\ ut' = UtIdle
            /\ result'.kind \in ReorgKinds]_vars

(***************************************************************************)
(* C8.  update_to_tip returns an error with is_halted() true exactly when  *)
(* detect_reorg reports Unrecoverable for the block received; it then      *)
(* leaves the store as it was (no rollback, no flush) and is_at_tip false. *)
(* A Recoverable reorg does not halt.                                      *)
(***************************************************************************)
C8_HaltOnlyWhenUnrecoverable ==
  [][ut' # ut =>
       LET height == get_block_count(ut.cache)
           unrecoverable ==
             /\ ReceivingAtTip(height)
             /\ detect_reorg(db, node_block(height), height,
                             settings.max_recoverable_reorg_depth) = Unrecoverable
       IN /\ unrecoverable => /\ ut' = UtIdle
                              /\ is_halted(result')
                              /\ db' = db
                              /\ ~is_at_tip'
          /\ (ut' = UtIdle /\ is_halted(result')) => unrecoverable
          /\ result'.kind = "recoverable" => ~is_halted(result')]_vars

\* update_to_tip has halted on a chain it had indexed blocks of
C8_Witness ==
  /\ ut.pc = "idle"
  /\ is_halted(result)
  /\ db.block_count >= 2
  /\ ~is_at_tip

\* the confirmed transactions that minted the rune, and the pending ones
ConfirmedMints(d, id) ==
  {t \in DOMAIN d.tx_state_changes :
     /\ d.tx_state_changes[t].minted # NoMint
     /\ d.tx_state_changes[t].minted[1].rune_id = id}

PendingMints(d, id) ==
  {t \in d.mempool : PendingMint(d, t) /\ d.mempool_tx_state_changes[t].minted[1].rune_id = id}

(***************************************************************************)
(* C9.  A mint indexed from the mempool, then indexed and flushed in a     *)
(* block, is after the next mempool tick counted once in mints and no      *)
(* longer in pending_mints: with Tm the rune's only mint, pending_mints =  *)
(* 0 and mints = 1.                                                        *)
(***************************************************************************)
C9_PendingMintPromoted ==
  \A t \in MempoolTxids :
     hist.stage[t] = 3 =>
       LET id == db.tx_state_changes[t].minted[1].rune_id
       IN /\ db.runes[id].pending_mints = Cardinality(PendingMints(db, id))
          /\ db.runes[id].mints = Cardinality(ConfirmedMints(db, id))
          /\ t \in ConfirmedMints(db, id) \ PendingMints(db, id)
          /\ ConfirmedMints(db, id) = {t}
               => db.runes[id].pending_mints = 0 /\ db.runes[id].mints = 1

\* Tm1 went through the mempool, a block and the tick after it
C9_Witness ==
  /\ hist.stage["Tm1"] = 3
  /\ ConfirmedMints(db, RuneR) = {"Tm1"}
  /\ db.runes[RuneR].pending_mints = 0
  /\ db.runes[RuneR].mints = 1

\* what a rollback has to restore
Restorable(d) ==
  [block_count |-> d.block_count, block_hashes |-> d.block_hashes, blocks |-> d.blocks,
   rune_count |-> d.rune_count, runes |-> d.runes, rune_ids |-> d.rune_ids,
   txouts |-> d.txouts, tx_state_changes |-> d.tx_state_changes,
   mempool_txouts |-> d.mempool_txouts, mempool |-> d.mempool]

(***************************************************************************)
(* C4.  A block applied (index_block, set_new_block, flush) and then       *)
(* rolled back leaves the store as it was before the block: block_count,   *)
(* block records and hashes, every rune entry with its mints, burned,      *)
(* pending_mints and pending_burns, the outpoints and rune_count.          *)
(***************************************************************************)
C4_ApplyThenRollbackIsIdentity ==
  hist.rolled => Restorable(db) = Restorable(hist.applied[1])

\* the RuneMinted events emitted so far, as [txid, in_mempool]
RuneMinted(evs) ==
  LET minted == SelectSeq(evs, LAMBDA e : e.type = "RuneMinted")
  IN [i \in DOMAIN minted |->
        [txid |-> minted[i].txid, in_mempool |-> minted[i].in_mempool]]

RuneMintedFor(evs, t) == SelectSeq(RuneMinted(evs), LAMBDA e : e.txid = t)

PendingBurns(d, id) ==
  SetSum([t \in d.mempool |->
            IF Has(d.mempool_tx_state_changes, t)
            THEN BalGet(d.mempool_tx_state_changes[t].burned, id) ELSE 0],
         d.mempool)

ConfirmedTxs(d) ==
  UNION {Range(d.blocks[d.block_hashes[h]].tx_ids) :
           h \in {x \in DOMAIN d.block_hashes : Has(d.blocks, d.block_hashes[x])}}

\* the outpoints the store holds an entry of
StoredOutpoints(d) == DOMAIN d.txouts \cup DOMAIN d.mempool_txouts

C15_PendingEffectsAtMostOnce ==
  \A id \in DOMAIN db.runes :
     /\ db.runes[id].pending_mints <= Cardinality(PendingMints(db, id))
     /\ db.runes[id].pending_burns <= PendingBurns(db, id)

\* Tm1 was handed to index_tx again while stored, and counts once
C15_Witness ==
  /\ "Tm1" \in hist.again
  /\ PendingMints(db, RuneR) = {"Tm1"}
  /\ db.runes[RuneR].pending_mints = 1

(***************************************************************************)
(* C13.  No step of the block pipeline changes a rune's pending_mints or   *)
(* pending_burns, and no step of the mempool pipeline changes its mints or *)
(* burned: an update one pipeline made is never overwritten by a stale     *)
(* value the other pipeline holds.                                         *)
(***************************************************************************)
C13_NoCounterOverwritten ==
  [][\A id \in DOMAIN db.runes \cap DOMAIN db'.runes :
       /\ ut' # ut => /\ db'.runes[id].pending_mints = db.runes[id].pending_mints
                      /\ db'.runes[id].pending_burns = db.runes[id].pending_burns
       /\ ut' = ut => /\ db'.runes[id].mints = db.runes[id].mints
                      /\ db'.runes[id].burned = db.runes[id].burned]_vars


\* a flush has made its BatchUpdate commit and not yet its BatchDelete commit
FlushBetweenCommits == ut.pc = "delete"

(***************************************************************************)
(* C14: while a flush holds the store for writing no other thread reads    *)
(* the store through StoreWithLock: no read happens between the            *)
(* BatchUpdate commit and the BatchDelete commit of a flush.               *)
(***************************************************************************)
C14_NoReadDuringFlush ==
  [][reader' # reader => ~FlushBetweenCommits]_vars

\* purged heights (block 0 apart) whose transactions still have their
\* tx_state_change in the store d
UnpurgedStateChanges(d) ==
  {t \in DOMAIN d.tx_state_changes :
     \E h \in 1..d.purged_blocks_count :
        /\ Has(d.block_hashes, h)
        /\ Has(d.blocks, d.block_hashes[h])
        /\ t \in Range(d.blocks[d.block_hashes[h]].tx_ids)}

(***************************************************************************)
(* C18: purged_blocks_count and the deletion of the tx_state_changes of    *)
(* the purged heights are one atomic commit: whenever update_to_tip is     *)
(* not running (it returned, or the process was killed in the middle of a  *)
(* flush), no purged height has a tx_state_change left in the store.       *)
(***************************************************************************)
C18_PurgeCommittedAtomically ==
  ut.pc = "idle" => UnpurgedStateChanges(db) = {}


\* the transactions listed in the stored block of height h
BlockTxIds(d, h) ==
  IF Has(d.block_hashes, h) /\ Has(d.blocks, d.block_hashes[h])
  THEN Range(d.blocks[d.block_hashes[h]].tx_ids)
  ELSE {}

(***************************************************************************)
(* C16: for every height h <= purged_blocks_count, h = 0 included, the     *)
(* store holds no tx_state_change of a transaction of block h, and unless  *)
(* index_spent_outputs is set it holds none of the outpoints those         *)
(* transactions consumed.                                                  *)
(***************************************************************************)
C16_PurgedHeightsHoldNothing ==
  \A h \in 0..db.purged_blocks_count :
     \A t \in BlockTxIds(db, h) :
        /\ ~Has(db.tx_state_changes, t)
        /\ ~settings.index_spent_outputs =>
              \A o \in Range(TxDef[t].input) : ~Has(db.txouts, o)


\* height of the last block the store holds, -1 when it holds none
LatestHeight(d) == d.block_count - 1

ReportsRecoverable == ut.pc = "recv" /\ ut'.pc = "idle" /\ result'.kind = "recoverable"

SecondFlushIsNoOp(c1, d1) ==
  LET p == prepare_to_delete(c1, d1, settings.max_recoverable_reorg_depth,
                             settings.index_spent_outputs)
      f == flush(c1, d1, settings.max_recoverable_reorg_depth,
                 settings.index_spent_outputs)
  IN /\ p.ok /\ f.ok
     /\ BatchUpdate_is_empty(p.cache.update)
     /\ BatchDelete_is_empty(p.cache.delete)
     /\ p.cache.update.purged_blocks_count = c1.update.purged_blocks_count
     /\ f.db = d1
     /\ f.cache.update.block_count = c1.update.block_count
     /\ f.cache.update.rune_count = c1.update.rune_count
     /\ f.cache.update.purged_blocks_count = c1.update.purged_blocks_count

\* the flush of the cache update_to_tip holds, as its next flush would be
NextFlush ==
  flush(ut.cache, db, settings.max_recoverable_reorg_depth,
        settings.index_spent_outputs)

(***************************************************************************)
(* C19: a flush that follows a flush with no set_* call in between is a    *)
(* no-op: it issues no batch_update and no batch_delete, stages no purge   *)
(* and leaves the store and the counters block_count, rune_count and       *)
(* purged_blocks_count unchanged.  Checked for the cache of update_to_tip  *)
(* at every point between two blocks, whatever it has staged.              *)
(***************************************************************************)
C19_SecondFlushNoOp ==
  (ut.pc = "recv" /\ NextFlush.ok) => SecondFlushIsNoOp(NextFlush.cache, NextFlush.db)

\* a block is staged and the first flush purges a block
C19_Witness ==
  /\ ut.pc = "recv"
  /\ ut.cache.last_block_height # NoHeight
  /\ ~BatchUpdate_is_empty(ut.cache.update)
  /\ NextFlush.ok
  /\ NextFlush.db.purged_blocks_count > db.purged_blocks_count
  /\ NextFlush.db.tx_state_changes # db.tx_state_changes


\* the txids the object was told in an added set and in a removed set
ToldBoth == hist.calls.added \cap hist.calls.removed

(***************************************************************************)
(* C20: after any sequence of new, add_block_tx, remove_block_tx and       *)
(* update_mempool, categorize_to_change_set returns as added the txids     *)
(* told added in either domain and removed in none, and as removed the     *)
(* txids told removed in either domain and added in none; the two sets     *)
(* are disjoint and a txid told both added and removed is in neither.      *)
(***************************************************************************)
C20_ChangeSetNetsBothDomains ==
  LET out == categorize_to_change_set(tx_update)
  IN /\ out.added = hist.calls.added \ hist.calls.removed
     /\ out.removed = hist.calls.removed \ hist.calls.added
     /\ out.added \cap out.removed = {}
     /\ ToldBoth \cap (out.added \cup out.removed) = {}

\* one txid left the mempool and was mined, the other only entered the
\* mempool: the change set taken holds the second alone
C20_Witness ==
  /\ "Tm1" \in tx_update.mempool_removed \cap tx_update.block_added
  /\ "Tm1" \notin tx_update.mempool_added \cup tx_update.block_removed
  /\ tx_update.block_added_counts["Tm1"] = 2
  /\ "Tb" \in tx_update.mempool_added
  /\ events = <<TransactionChangeSet({"Tb"}, {})>>
  /\ events[1] = categorize_to_change_set(tx_update)


MAX_LINE == 8192

MAX_PREAMBLE_LINES == 10

EventTypes == {"RuneMinted", "Reorg"}

ReqMinted == "{\"subscribe\":[\"RuneMinted\"]}"

ReqReorg == "{\"subscribe\":[\"Reorg\"]}"

ReqBoth == " {\"subscribe\":[\"RuneMinted\",\"Reorg\"]}\r"

ReqUnknown == "{\"subscribe\":[\"NotAnEvent\"]}"

ReqMalformed == "{not json"

Line(text, len) == [text |-> text, len |-> len]

PreambleLines ==
  {Line("", 0), Line("   ", 3), Line("PING", 4), Line("  PING \r", 8),
   Line("ping", 4), Line("hello", 5)}

RequestLines == {Line(ReqMinted, 26), Line(ReqReorg, 21), Line(ReqBoth, 36)}

\* a request padded with blanks to exactly MAX_LINE bytes is still read
LongestLine == Line(ReqMinted, MAX_LINE)

BadLines ==
  {Line(ReqUnknown, 26), Line(ReqMalformed, 9), Line(ReqMinted, MAX_LINE + 1)}

WireLines == PreambleLines \cup RequestLines \cup {LongestLine} \cup BadLines

\* LinesCodec::new_with_max_length(MAX_LINE): a longer line is a read error
LinesCodec_decode(line) ==
  IF line.len > MAX_LINE THEN [ok |-> FALSE] ELSE [ok |-> TRUE, line |-> line.text]

\* str::trim
trim(text) ==
  CASE text = "   " -> ""
    [] text = "  PING \r" -> "PING"
    [] text = ReqBoth -> "{\"subscribe\":[\"RuneMinted\",\"Reorg\"]}"
    [] OTHER -> text

\* str::starts_with('{')
starts_with_brace(text) ==
  text \in {ReqMinted, ReqReorg, trim(ReqBoth), ReqUnknown, ReqMalformed}

\* serde_json::from_str::<TcpSubscriptionRequest>
serde_from_str(text) ==
  CASE text = ReqMinted -> [ok |-> TRUE, subscribe |-> <<"RuneMinted">>]
    [] text = ReqReorg -> [ok |-> TRUE, subscribe |-> <<"Reorg">>]
    [] text = trim(ReqBoth) -> [ok |-> TRUE, subscribe |-> <<"RuneMinted", "Reorg">>]
    [] OTHER -> [ok |-> FALSE]

\* EventType::from(event)
EventType_from(event) == event.type

TcpEvents ==
  {[type |-> "RuneMinted", txid |-> "Te"], [type |-> "Reorg", height |-> 1]}

\* a preamble line counted only after the cap is tested
count_preamble_late(cn, err) ==
  IF cn.preamble_lines >= MAX_PREAMBLE_LINES
  THEN [ret |-> "err", conn |-> [cn EXCEPT !.err = err]]
  ELSE [ret |-> "continue", conn |-> [cn EXCEPT !.preamble_lines = @ + 1]]

\* one more preamble line: the error at the cap, else the loop goes on
count_preamble(cn, err) ==
  LET n == cn.preamble_lines + 1 IN
  IF n >= MAX_PREAMBLE_LINES
  THEN [ret |-> "err", conn |-> [cn EXCEPT !.preamble_lines = n, !.err = err]]
  ELSE [ret |-> "continue", conn |-> [cn EXCEPT !.preamble_lines = n]]

\* read_handshake_request answering a PING only when the cap is not reached
read_handshake_ping_capped(cn, write_ok) ==
  LET counted == count_preamble(cn, "too_many_preamble") IN
  IF counted.ret = "err" THEN counted
  ELSE IF ~write_ok
       THEN [ret |-> "err", conn |-> [cn EXCEPT !.err = "pong_failed"]]
       ELSE [ret |-> "continue", conn |-> [counted.conn EXCEPT !.pongs = @ + 1]]

\* read_handshake_request, the PING branch: PONG is written, then the line counted
read_handshake_ping(cn, write_ok) ==
  IF ~write_ok
  THEN [ret |-> "err", conn |-> [cn EXCEPT !.err = "pong_failed"]]
  ELSE count_preamble([cn EXCEPT !.pongs = @ + 1], "too_many_preamble")

\* one turn of the loop of read_handshake_request, on one item of the stream:
\* the loop goes on ("continue"), or returns the request ("ok") or an error
read_handshake_request(cn, item, write_ok) ==
  IF ~item.ok
  THEN [ret |-> "err", conn |-> [cn EXCEPT !.err = "read_error"]]
  ELSE
    LET trimmed == trim(item.line) IN
    IF trimmed = "" THEN count_preamble(cn, "too_many_preamble")
    ELSE IF trimmed = "PING" THEN read_handshake_ping(cn, write_ok)
    ELSE IF starts_with_brace(trimmed)
    THEN LET parsed == serde_from_str(trimmed) IN
         IF parsed.ok
         THEN [ret |-> "ok", conn |-> cn, request |-> parsed]
         ELSE [ret |-> "err", conn |-> [cn EXCEPT !.err = "invalid_json"]]
    ELSE count_preamble(cn, "too_many_preamble")

\* TcpSubscriptionManager::register
register(m, id, event_types) ==
  [m EXCEPT !.subscriptions = Put(m.subscriptions, id, event_types)]

\* TcpSubscriptionManager::unregister
unregister(m, id) ==
  [m EXCEPT !.subscriptions = Drop(m.subscriptions, {id})]

\* what a line read adds to the handler's record of the lines it has read
NoteLine(cn, line) ==
  [cn EXCEPT !.lines = @ + 1,
             !.last = line,
             !.pings = IF LinesCodec_decode(line).ok /\ trim(line.text) = "PING"
                       THEN @ + 1 ELSE @]

\* the handler ends: its receiver and its socket are dropped
EndConn(cn, pc, err) == [cn EXCEPT !.pc = pc, !.err = err, !.chan = <<>>]

\* handle_tcp_connection registering a subscription before the request is read
handle_handshake_eager(m, c, line, write_ok) ==
  LET cn == NoteLine(m.conn[c], line)
      r == read_handshake_request(cn, LinesCodec_decode(line), write_ok)
      types == IF r.ret = "ok" THEN Range(r.request.subscribe) ELSE {}
  IN  register([m EXCEPT !.conn[c] =
                  IF r.ret = "err" THEN EndConn(r.conn, "failed", r.conn.err)
                  ELSE IF r.ret = "ok" THEN [r.conn EXCEPT !.pc = "streaming"]
                  ELSE r.conn],
               c, types)

\* handle_tcp_connection, lines 134-162: one line of the handshake; on a
\* request the subscription is registered and the handler starts streaming,
\* on an error the handler returns it
handle_handshake(m, c, line, write_ok) ==
  LET cn == NoteLine(m.conn[c], line)
      r == read_handshake_request(cn, LinesCodec_decode(line), write_ok)
  IN  IF r.ret = "err"
      THEN [m EXCEPT !.conn[c] = EndConn(r.conn, "failed", r.conn.err)]
      ELSE IF r.ret = "ok"
      THEN register([m EXCEPT !.conn[c] = [r.conn EXCEPT !.pc = "streaming"]],
                    c, Range(r.request.subscribe))
      ELSE [m EXCEPT !.conn[c] = r.conn]

\* the loop's exit: break, unregister, Ok(())
handle_break(m, c, cn, err) ==
  unregister([m EXCEPT !.conn[c] = EndConn(cn, "done", err)], c)

\* the streaming loop never answering a line
handle_stream_line_silent(m, c, line, write_ok) ==
  LET cn == NoteLine(m.conn[c], line) IN
  IF ~LinesCodec_decode(line).ok THEN handle_break(m, c, cn, "read_error")
  ELSE [m EXCEPT !.conn[c] = cn]

\* handle_tcp_connection, lines 182-209: the streaming loop reads a line
handle_stream_line(m, c, line, write_ok) ==
  LET cn == NoteLine(m.conn[c], line)
      item == LinesCodec_decode(line)
  IN  IF ~item.ok THEN handle_break(m, c, cn, "read_error")
      ELSE IF trim(item.line) = "PING"
      THEN IF write_ok
           THEN [m EXCEPT !.conn[c] = [cn EXCEPT !.pongs = @ + 1]]
           ELSE handle_break(m, c, cn, "pong_failed")
      ELSE [m EXCEPT !.conn[c] = cn]

\* handle_tcp_connection, lines 169-175: an event of the channel is written to
\* the client; a failed write returns the error at once
handle_stream_event(m, c, write_ok) ==
  LET cn == m.conn[c] IN
  IF write_ok
  THEN [m EXCEPT !.conn[c] = [cn EXCEPT !.chan = Tail(@)]]
  ELSE [m EXCEPT !.conn[c] = EndConn(cn, "failed", "write_failed")]

\* Sender::try_send on the channel of connection cn
try_send(cn) ==
  IF cn.pc # "streaming" THEN "Closed"
  ELSE IF Len(cn.chan) >= ChannelCapacity THEN "Full"
  ELSE "Ok"

\* broadcast evicting nobody
broadcast_no_evict(m, event) ==
  LET event_type == EventType_from(event)
      subs == m.subscriptions
      wants == {id \in DOMAIN subs : event_type \in subs[id]}
  IN  [m EXCEPT !.conn = [c \in Conns |->
                            IF c \in wants /\ try_send(m.conn[c]) = "Ok"
                            THEN [m.conn[c] EXCEPT !.chan = Append(@, event)]
                            ELSE m.conn[c]],
                !.sent = <<event, IF m.sent = <<>> THEN 0 ELSE 1 - m.sent[2]>>]

\* TcpSubscriptionManager::broadcast
broadcast(m, event) ==
  LET event_type == EventType_from(event)
      subs == m.subscriptions
      wants == {id \in DOMAIN subs : event_type \in subs[id]}
      failed_ids == {id \in wants : try_send(m.conn[id]) # "Ok"}
  IN  [m EXCEPT !.conn = [c \in Conns |->
                            IF c \in wants \ failed_ids
                            THEN [m.conn[c] EXCEPT !.chan = Append(@, event)]
                            ELSE m.conn[c]],
                !.subscriptions = Drop(subs, failed_ids),
                !.sent = <<event, IF m.sent = <<>> THEN 0 ELSE 1 - m.sent[2]>>]

TcpFrame == UNCHANGED <<IndexerVars, addr, rune_pair, shutdown_flag, alkanes>>

\* the listener accepts a connection and spawns its handler
TcpAccept(c) ==
  /\ tcp.conn[c].pc = "idle"
  /\ tcp' = [tcp EXCEPT !.conn[c].pc = "handshake"]
  /\ TcpFrame

TcpHandshakeLine(c, lines, budget) ==
  /\ tcp.conn[c].pc = "handshake"
  /\ tcp.conn[c].lines < budget
  /\ \E line \in lines, write_ok \in BOOLEAN :
       tcp' = handle_handshake(tcp, c, line, write_ok)
  /\ TcpFrame

\* the client closes before its request: lines.next() is None
TcpHandshakeEof(c) ==
  /\ tcp.conn[c].pc = "handshake"
  /\ tcp' = [tcp EXCEPT !.conn[c] = EndConn(@, "failed", "closed")]
  /\ TcpFrame

\* tokio::time::timeout(HANDSHAKE_TIMEOUT_SECS) elapses
TcpHandshakeTimeout(c) ==
  /\ tcp.conn[c].pc = "handshake"
  /\ tcp' = [tcp EXCEPT !.conn[c] = EndConn(@, "failed", "timeout")]
  /\ TcpFrame

TcpStreamLine(c, lines, budget) ==
  /\ tcp.conn[c].pc = "streaming"
  /\ tcp.conn[c].lines < budget
  /\ \E line \in lines, write_ok \in BOOLEAN :
       tcp' = handle_stream_line(tcp, c, line, write_ok)
  /\ TcpFrame

\* the client disconnects: lines.next() is None
TcpStreamEof(c) ==
  /\ tcp.conn[c].pc = "streaming"
  /\ tcp' = handle_break(tcp, c, tcp.conn[c], "closed")
  /\ TcpFrame

TcpStreamEvent(c) ==
  /\ tcp.conn[c].pc = "streaming"
  /\ tcp.conn[c].chan # <<>>
  /\ \E write_ok \in BOOLEAN : tcp' = handle_stream_event(tcp, c, write_ok)
  /\ TcpFrame

\* rx.recv() is None: the subscription, and its sender, are gone and the
\* channel is drained
TcpStreamChannelClosed(c) ==
  /\ tcp.conn[c].pc = "streaming"
  /\ ~Has(tcp.subscriptions, c)
  /\ tcp.conn[c].chan = <<>>
  /\ tcp' = handle_break(tcp, c, tcp.conn[c], "channel_closed")
  /\ TcpFrame

TcpBroadcast ==
  /\ \E event \in TcpEvents : tcp' = broadcast(tcp, event)
  /\ TcpFrame

\* one client, its handshake followed line by line
NextHandshake ==
  \/ TcpAccept(1)
  \/ TcpHandshakeLine(1, WireLines, MaxHandshakeLines)
  \/ TcpHandshakeEof(1)
  \/ TcpHandshakeTimeout(1)
  \/ TcpStreamLine(1, WireLines, MaxHandshakeLines)
  \/ TcpStreamEof(1)

SpecHandshake == Init /\ [][NextHandshake]_vars

StreamLines == {Line("PING", 4), Line("hello", 5), Line(ReqMinted, MAX_LINE + 1)}

\* several clients and the dispatcher
NextBroadcast ==
  \/ \E c \in Conns :
       \/ TcpAccept(c)
       \/ TcpHandshakeLine(c, RequestLines \cup {Line("PING", 4)}, MaxStreamLines)
       \/ TcpHandshakeEof(c)
       \/ TcpHandshakeTimeout(c)
       \/ TcpStreamLine(c, StreamLines, MaxStreamLines)
       \/ TcpStreamEof(c)
       \/ TcpStreamEvent(c)
       \/ TcpStreamChannelClosed(c)
  \/ TcpBroadcast

SpecBroadcast == Init /\ [][NextBroadcast]_vars

(***************************************************************************)
(* C22: after broadcast(e), every registered subscriber whose event types  *)
(* contain the type of e has e at the end of its channel, or is no longer  *)
(* registered, its channel having been full or closed; every other         *)
(* subscriber is still registered with the same channel content.           *)
(***************************************************************************)
ChannelFullOrClosed(cn) ==
  Len(cn.chan) >= ChannelCapacity \/ cn.pc \in {"done", "failed"}

C22_BroadcastDeliversOrEvicts ==
  [][tcp'.sent # tcp.sent =>
       \A id \in DOMAIN tcp.subscriptions :
         IF EventType_from(tcp'.sent[1]) \in tcp.subscriptions[id]
         THEN \/ /\ Has(tcp'.subscriptions, id)
                 /\ tcp'.conn[id].chan = Append(tcp.conn[id].chan, tcp'.sent[1])
              \/ /\ ~Has(tcp'.subscriptions, id)
                 /\ ChannelFullOrClosed(tcp.conn[id])
                 /\ tcp'.conn[id].chan = tcp.conn[id].chan
         ELSE /\ Has(tcp'.subscriptions, id)
              /\ tcp'.subscriptions[id] = tcp.subscriptions[id]
              /\ tcp'.conn[id].chan = tcp.conn[id].chan]_vars

\* a Reorg event was broadcast: subscriber 1, whose channel was full of
\* RuneMinted events it wants, stays registered; subscriber 2 was evicted
C22_Witness ==
  /\ tcp.sent # <<>>
  /\ tcp.sent[1].type = "Reorg"
  /\ Has(tcp.subscriptions, 1)
  /\ tcp.subscriptions[1] = {"RuneMinted"}
  /\ Len(tcp.conn[1].chan) = ChannelCapacity
  /\ ~Has(tcp.subscriptions, 2)
  /\ tcp.conn[2].pc = "streaming"
  /\ tcp.conn[2].last.text = ReqReorg
  /\ Len(tcp.conn[2].chan) = ChannelCapacity
  /\ tcp.conn[2].chan[1].type = "Reorg"

(***************************************************************************)
(* The handshake of connection c reads a line in this step.                *)
(***************************************************************************)
HandshakeReads(c) ==
  /\ tcp.conn[c].pc = "handshake"
  /\ tcp'.conn[c].lines = tcp.conn[c].lines + 1

IsRequest(line) ==
  /\ line.len <= MAX_LINE
  /\ trim(line.text) \in {ReqMinted, ReqReorg, trim(ReqBoth)}

IsPing(line) == line.len <= MAX_LINE /\ line.text \in {"PING", "  PING \r"}

OnlyPingsAnswered(cn) == cn.pings = cn.lines /\ cn.pongs = cn.lines

IsPreamble(line) ==
  /\ line.len <= MAX_LINE
  /\ trim(line.text) \in {"", "PING", "ping", "hello"}

C26_PreambleCap ==
  [][\A c \in Conns :
       LET cn == tcp.conn[c]
           after == tcp'.conn[c]
       IN  HandshakeReads(c) =>
             /\ cn.preamble_lines = cn.lines
             /\ cn.preamble_lines < MAX_PREAMBLE_LINES
             /\ IsPreamble(after.last) /\ after.err # "pong_failed" =>
                  /\ after.preamble_lines = cn.preamble_lines + 1
                  /\ IF after.preamble_lines >= MAX_PREAMBLE_LINES
                     THEN after.pc = "failed" /\ after.err = "too_many_preamble"
                     ELSE after.pc = "handshake"
             /\ IsPing(after.last) /\ after.err # "pong_failed" =>
                  after.pongs = cn.pongs + 1
             /\ IsRequest(after.last) => after.pc = "streaming"]_vars

\* empty lines, noise and PINGs, ten lines in all: the tenth, a PING, was
\* answered and the handshake failed
C26_Witness ==
  /\ tcp.conn[1].pc = "failed"
  /\ tcp.conn[1].err = "too_many_preamble"
  /\ tcp.conn[1].lines = MAX_PREAMBLE_LINES
  /\ tcp.conn[1].last.text = "PING"
  /\ tcp.conn[1].pings = 3
  /\ tcp.conn[1].pongs = 3

(***************************************************************************)
(* C27: a subscription enters the table only in the step in which the      *)
(* handshake of its connection read a valid request, and with the event    *)
(* types of that request; a handshake that ends on malformed JSON, an      *)
(* unknown event type, an overlong line, the end of the stream, the        *)
(* timeout or too many preamble lines ends the handler with an error and   *)
(* leaves the table as it was.                                             *)
(***************************************************************************)
HandshakeErrors ==
  {"invalid_json", "read_error", "closed", "timeout", "too_many_preamble", "pong_failed"}

C27_RegisteredAfterValidRequest ==
  [][\A c \in Conns :
       LET cn == tcp.conn[c]
           after == tcp'.conn[c]
       IN  /\ Has(tcp'.subscriptions, c) /\ ~Has(tcp.subscriptions, c) =>
                /\ HandshakeReads(c)
                /\ IsRequest(after.last)
                /\ after.pc = "streaming"
                /\ tcp'.subscriptions[c] =
                     Range(serde_from_str(trim(after.last.text)).subscribe)
           /\ cn.pc = "handshake" /\ after.pc # "streaming" =>
                tcp'.subscriptions = tcp.subscriptions
           /\ cn.pc = "handshake" /\ after.pc \notin {"handshake", "streaming"} =>
                after.pc = "failed" /\ after.err \in HandshakeErrors
           /\ HandshakeReads(c) /\ after.last \in BadLines =>
                /\ after.pc = "failed"
                /\ after.err = IF after.last.len > MAX_LINE
                               THEN "read_error" ELSE "invalid_json"]_vars

\* after two preamble lines a request for an unknown event type: the
\* handler failed and nothing is registered
C27_Witness ==
  /\ tcp.conn[1].pc = "failed"
  /\ tcp.conn[1].err = "invalid_json"
  /\ tcp.conn[1].last.text = ReqUnknown
  /\ tcp.conn[1].lines = 3
  /\ tcp.subscriptions = EmptyMap

(***************************************************************************)
(* C28: in the handshake and while streaming, a PONG is written only in    *)
(* answer to the line just read, one PONG, and only if that line trims to  *)
(* "PING"; every such line is answered, unless the write of its PONG       *)
(* failed, which ends the handler.                                         *)
(***************************************************************************)
C28_OnePongPerPing ==
  [][\A c \in Conns :
       LET cn == tcp.conn[c]
           after == tcp'.conn[c]
       IN  /\ after.pongs # cn.pongs =>
                /\ after.pongs = cn.pongs + 1
                /\ after.lines = cn.lines + 1
                /\ IsPing(after.last)
           /\ after.lines = cn.lines + 1 /\ IsPing(after.last) =>
                \/ after.pongs = cn.pongs + 1
                \/ (after.err = "pong_failed" /\ after.pc \in {"failed", "done"})
           /\ \/ after.pongs = after.pings
              \/ (after.err = "pong_failed" /\ after.pongs + 1 = after.pings)]_vars

\* one PING before the request and two after it, lowercase ping and noise
\* between them: three PONGs
C28_Witness ==
  /\ tcp.conn[1].pc = "streaming"
  /\ tcp.conn[1].preamble_lines = 3
  /\ tcp.conn[1].lines = 7
  /\ tcp.conn[1].pings = 3
  /\ tcp.conn[1].pongs = 3
  /\ tcp.conn[1].last.text = "  PING \r"

(***************************************************************************)
(* The hand-off of events from the pipeline to the dispatcher.  events is  *)
(* the bounded channel between them.  A block is applied in steps: the     *)
(* transactions are saved into the cache, the events are sent one          *)
(* blocking_send at a time, the cache is flushed.  On the "updater" path   *)
(* the TransactionUpdater holds the sender and sends while it saves, so    *)
(* before the flush; on the "cache" path the events are staged in the      *)
(* cache (add_event) and send_events drains them after the flush.  The     *)
(* dispatcher takes events from the channel whenever it is scheduled.      *)
(***************************************************************************)
HandOffPaths == {"updater", "cache"}

\* Sender::blocking_send returns once the channel has room for the event
blocking_send_ready(chan) == Len(chan) < EventChannelCapacity

\* the pipeline saves the transactions of the next block
EvBlockSave(path) ==
  LET height == db.block_count
  IN /\ ut.pc = "idle"
     /\ height < MaxHeight
     /\ \E txs \in (IF height < Len(chain) THEN {chain[height + 1].txs}
                    ELSE IF height = 0 THEN {<<"Te">>}
                    ELSE BlockTxs(chain, BlockChoices)) :
          LET ch == IF height < Len(chain) THEN chain
                    ELSE Append(chain, [nonce |-> 0, txs |-> txs])
              block == [header |-> Header(SubSeq(ch, 1, height), 0, txs), txdata |-> txs]
              c == UpdaterCache_new(db, FALSE)
              block_data == parse_block(c, db, height, txs, 1)
              ib == save_block([ok |-> TRUE, cache |-> c, events |-> <<>>], db,
                               TransactionUpdater_new(TRUE, FALSE), height,
                               block_data, empty_block(height, block.header))
              cache == set_new_block(ib.st.cache, ib.block)
          IN /\ ib.st.ok
             /\ flush(cache, db, settings.max_recoverable_reorg_depth,
                      settings.index_spent_outputs).ok
             /\ chain' = ch
             /\ node_mempool' = node_mempool \ Range(txs)
             /\ ut' = [pc |-> "handoff", path |-> path, cache |-> cache,
                       pending |-> ib.st.events, flushed |-> FALSE]
     /\ UNCHANGED <<settings, node_hist, db, is_at_tip, result, events, mp,
                    store_lock, reader, tx_update, hist>>
     /\ UNCHANGED SideVars

\* TransactionUpdater::save, burn_rune, mint_rune: sender.blocking_send(event)
EvUpdaterSend ==
  /\ ut.pc = "handoff" /\ ut.path = "updater"
  /\ ut.pending # <<>>
  /\ blocking_send_ready(events)
  /\ events' = Append(events, Head(ut.pending))
  /\ ut' = [ut EXCEPT !.pending = Tail(@)]
  /\ UNCHANGED <<settings, chain, node_mempool, node_hist, db, is_at_tip, result, mp,
                 store_lock, reader, tx_update, hist>>
  /\ UNCHANGED SideVars

\* UpdaterCache::flush of the block saved
EvFlush ==
  /\ ut.pc = "handoff" /\ ~ut.flushed
  /\ ut.path = "updater" => ut.pending = <<>>
  /\ db' = flush(ut.cache, db, settings.max_recoverable_reorg_depth,
                 settings.index_spent_outputs).db
  /\ ut' = IF ut.pending = <<>> THEN UtIdle ELSE [ut EXCEPT !.flushed = TRUE]
  /\ UNCHANGED <<settings, chain, node_mempool, node_hist, is_at_tip, result, events,
                 mp, store_lock, reader, tx_update, hist>>
  /\ UNCHANGED SideVars

\* UpdaterCache::send_events, one turn of its loop; after the last event the
\* staged events are cleared
EvSendEvents ==
  /\ ut.pc = "handoff" /\ ut.path = "cache" /\ ut.flushed
  /\ ut.pending # <<>>
  /\ blocking_send_ready(events)
  /\ events' = Append(events, Head(ut.pending))
  /\ ut' = IF Tail(ut.pending) = <<>> THEN UtIdle ELSE [ut EXCEPT !.pending = Tail(@)]
  /\ UNCHANGED <<settings, chain, node_mempool, node_hist, db, is_at_tip, result, mp,
                 store_lock, reader, tx_update, hist>>
  /\ UNCHANGED SideVars

\* the dispatcher receives an event and broadcasts it to the subscribers
EvDispatch ==
  /\ events # <<>>
  /\ events' = Tail(events)
  /\ tcp' = broadcast(tcp, Head(events))
  /\ UNCHANGED <<settings, chain, node_mempool, node_hist, db, is_at_tip, ut, result,
                 mp, store_lock, reader, tx_update, hist>>
  /\ UNCHANGED <<addr, rune_pair, shutdown_flag, alkanes>>

NextEvents ==
  \/ \E path \in HandOffPaths : EvBlockSave(path)
  \/ EvUpdaterSend
  \/ EvFlush
  \/ EvSendEvents
  \/ EvDispatch

SpecEvents == Init /\ [][NextEvents]_vars

(***************************************************************************)
(* C23: the pipeline never waits for the event channel: whenever it has an *)
(* event to hand off, the channel has room for it.                         *)
(***************************************************************************)
PipelineSending ==
  /\ ut.pc = "handoff"
  /\ ut.pending # <<>>
  /\ ut.path = "updater" \/ ut.flushed

C23_PipelineNeverWaits == PipelineSending => Len(events) < EventChannelCapacity

(***************************************************************************)
(* C24: an event about a transaction of block B enters the event channel   *)
(* only when B is persisted: the stored block count is above B and the     *)
(* transaction's state change is in the store.                             *)
(***************************************************************************)
C24_EventsAfterFlush ==
  [][Len(events') > Len(events) =>
       LET e == events'[Len(events')] IN
         /\ db.block_count > e.block_height
         /\ Has(db.tx_state_changes, e.txid)]_vars

(***************************************************************************)
(* The address updater (address/updater.rs).  The pipeline tells it the    *)
(* outpoints each block creates and spends; before a flush                 *)
(* batch_update_script_pubkey stages the script-pubkey deltas in the       *)
(* cache, and the flush applies them to the two indexes of the store (add  *)
(* the new outpoints of a script, remove the spent ones, put the reverse   *)
(* entries).  The two Vecs of an entry are filled in HashMap order and are *)
(* modelled as sets.                                                       *)
(***************************************************************************)
AddrOutPoints == {"O1", "O2"}

ScriptPubKeys == {"A", "B", "op_return"}

is_op_return(script_pubkey) == script_pubkey = "op_return"

\* AddressUpdater::add_new_outpoint
add_new_outpoint(u, outpoint, script_pubkey) ==
  IF ~is_op_return(script_pubkey)
  THEN [u EXCEPT !.new_outpoints = Put(@, outpoint, script_pubkey)]
  ELSE u

\* AddressUpdater::add_spent_outpoint
add_spent_outpoint(u, outpoint, spender_reference) ==
  [u EXCEPT !.spent_outpoints = Put(@, outpoint, spender_reference)]

\* UpdaterCache::get_outpoints_to_script_pubkey: a bulk read of the store's
\* reverse index
get_outpoints_to_script_pubkey(store, outpoints) ==
  [o \in outpoints \cap DOMAIN store.outpoints |-> store.outpoints[o]]

\* UpdaterCache::set_script_pubkey_entries
set_script_pubkey_entries(staged, script_pubkey_entry) ==
  [staged EXCEPT !.script_pubkeys = script_pubkey_entry]

\* UpdaterCache::batch_set_outpoints_to_script_pubkey
batch_set_outpoints_to_script_pubkey(staged, items) ==
  [staged EXCEPT !.script_pubkeys_outpoints = items]

\* the block variant staging every new outpoint as new, spent later or not
batch_update_keeping_churn(u, staged, store) ==
  LET old_spent == DOMAIN u.spent_outpoints \ DOMAIN u.new_outpoints
      spent_map == get_outpoints_to_script_pubkey(store, old_spent)
      spks == Range(spent_map) \cup Range(u.new_outpoints)
      spk_map == [spk \in spks |->
                    [new |-> {o \in DOMAIN u.new_outpoints : u.new_outpoints[o] = spk},
                     spent |-> {o \in DOMAIN spent_map : spent_map[o] = spk}]]
      staged1 == set_script_pubkey_entries(staged, spk_map)
  IN  IF u.new_outpoints # EmptyMap
      THEN batch_set_outpoints_to_script_pubkey(staged1, u.new_outpoints)
      ELSE staged1

\* AddressUpdater::batch_update_script_pubkeys_for_block: the staged maps
batch_update_script_pubkeys_for_block(u, staged, store) ==
  LET old_spent_outpoints == DOMAIN u.spent_outpoints \ DOMAIN u.new_outpoints
      new_spent_outpoints == DOMAIN u.spent_outpoints \cap DOMAIN u.new_outpoints
      spent_map == IF old_spent_outpoints # {}
                   THEN get_outpoints_to_script_pubkey(store, old_spent_outpoints)
                   ELSE EmptyMap
      spks == Range(spent_map) \cup Range(u.new_outpoints)
      spk_map ==
        [spk \in spks |->
           [new |-> {o \in DOMAIN u.new_outpoints \ new_spent_outpoints :
                       u.new_outpoints[o] = spk},
            spent |-> {o \in DOMAIN spent_map : spent_map[o] = spk}
                        \cup {o \in new_spent_outpoints : u.new_outpoints[o] = spk}]]
      staged1 == set_script_pubkey_entries(staged, spk_map)
      outpoints_to_add == Drop(u.new_outpoints, new_spent_outpoints)
  IN  IF u.new_outpoints # EmptyMap /\ outpoints_to_add # EmptyMap
      THEN batch_set_outpoints_to_script_pubkey(staged1, outpoints_to_add)
      ELSE staged1

\* AddressUpdater::batch_update_script_pubkey on the cache of the block
\* pipeline (settings.mempool is false): stage, then clear the two maps
batch_update_script_pubkey(u, store) ==
  [u EXCEPT !.staged = batch_update_script_pubkeys_for_block(u, u.staged, store),
            !.spent_outpoints = EmptyMap,
            !.new_outpoints = EmptyMap]

\* the flush commits the staged script-pubkey deltas
store_script_pubkeys(store, staged) ==
  [script_pubkeys |->
     [spk \in DOMAIN store.script_pubkeys \cup DOMAIN staged.script_pubkeys |->
        LET had == IF Has(store.script_pubkeys, spk) THEN store.script_pubkeys[spk] ELSE {}
            entry == IF Has(staged.script_pubkeys, spk) THEN staged.script_pubkeys[spk]
                     ELSE [new |-> {}, spent |-> {}]
        IN  (had \cup entry.new) \ entry.spent],
   outpoints |-> Overlay(staged.script_pubkeys_outpoints, store.outpoints)]

AddrFrame == UNCHANGED <<IndexerVars, tcp, rune_pair, shutdown_flag, alkanes>>

\* a transaction of the current block creates an outpoint
AddrNewOutpoint ==
  /\ addr.window < MaxWindows
  /\ \E o \in AddrOutPoints \ DOMAIN addr.born, spk \in ScriptPubKeys :
       addr' = [add_new_outpoint(addr, o, spk) EXCEPT
                  !.born = Put(@, o, [window |-> addr.window, block |-> addr.block,
                                      script_pubkey |-> spk])]
  /\ AddrFrame

\* a transaction of the current block spends an outpoint created before
AddrSpentOutpoint ==
  /\ addr.window < MaxWindows
  /\ \E o \in DOMAIN addr.born \ DOMAIN addr.died :
       addr' = [add_spent_outpoint(addr, o, "Ts") EXCEPT
                  !.died = Put(@, o, [window |-> addr.window, block |-> addr.block])]
  /\ AddrFrame

\* the next block of the flush window begins
AddrNextBlock ==
  /\ addr.window < MaxWindows
  /\ addr.block + 1 < MaxWindowBlocks
  /\ addr' = [addr EXCEPT !.block = @ + 1]
  /\ AddrFrame

\* the window ends: batch_update_script_pubkey, then the flush; the staged
\* maps stay readable as the flush found them until the next flush
AddrFlush ==
  /\ addr.window < MaxWindows
  /\ LET fresh == [addr EXCEPT !.staged = AddressUpdater_new.staged]
         u == batch_update_script_pubkey(fresh, addr.store)
     IN  addr' = [u EXCEPT !.store = store_script_pubkeys(addr.store, u.staged),
                           !.window = @ + 1,
                           !.block = 0]
  /\ AddrFrame

NextAddress ==
  \/ AddrNewOutpoint
  \/ AddrSpentOutpoint
  \/ AddrNextBlock
  \/ AddrFlush

SpecAddress == Init /\ [][NextAddress]_vars

(***************************************************************************)
(* C29: an outpoint created, paying script A, and spent in one flush       *)
(* window, in one block or in two, is at the flush of that window not      *)
(* among the staged new outpoints of A and has no staged reverse entry;    *)
(* after the flush it is not in A's outpoint set and the reverse index has *)
(* no entry for it.                                                        *)
(***************************************************************************)
\* the outpoints created and spent in window w
Churned(w) ==
  {o \in DOMAIN addr.born \cap DOMAIN addr.died :
     addr.born[o].window = w /\ addr.died[o].window = w}

RECURSIVE to_le_bytes(_, _)
to_le_bytes(n, width) ==
  IF width = 0 THEN <<>> ELSE <<n % 256>> \o to_le_bytes(n \div 256, width - 1)

\* RuneId::to_bytes
to_bytes(id) == to_le_bytes(id.block, 8) \o to_le_bytes(id.tx, 4)

\* [u8; 12] <= [u8; 12]
RECURSIVE BytesLeq(_, _)
BytesLeq(x, y) ==
  IF x = <<>> THEN TRUE
  ELSE IF Head(x) # Head(y) THEN Head(x) < Head(y)
  ELSE BytesLeq(Tail(x), Tail(y))

\* RuneId::get_sorted_rune_ids
get_sorted_rune_ids(rune0, rune1) ==
  LET rune0_bytes == to_bytes(rune0)
      rune1_bytes == to_bytes(rune1)
  IN  IF BytesLeq(rune0_bytes, rune1_bytes)
      THEN <<rune0_bytes, rune1_bytes>>
      ELSE <<rune1_bytes, rune0_bytes>>

\* RuneId::new over blocks and txs on both sides of a byte boundary
RuneIds == [block : {0, 1, 255, 256, 65536}, tx : {0, 1, 256}]

InitRunePairs ==
  /\ settings = [max_recoverable_reorg_depth |-> MaxReorgDepthSetting,
                 commit_interval |-> 1, index_spent_outputs |-> FALSE]
  /\ chain = <<>>
  /\ node_mempool = {}
  /\ node_hist = [reorgs |-> 0, relayed |-> {}]
  /\ db = EmptyStore
  /\ is_at_tip = FALSE
  /\ ut = UtIdle
  /\ result = NoResult
  /\ events = <<>>
  /\ mp = MpIdle
  /\ store_lock = StoreWithLock_new
  /\ reader = NoReading
  /\ tx_update = TransactionUpdate_default
  /\ tcp = TcpSubscriptionManager_new
  /\ addr = AddressUpdater_new
  /\ rune_pair \in [rune0 : RuneIds, rune1 : RuneIds, sorted : {<<>>}]
  /\ shutdown_flag = FALSE
  /\ alkanes = AlkanesRocksDBStore_new(EmptyMap)
  /\ hist = NoHist

\* a caller sorts the pair
RuneIdSort ==
  /\ rune_pair.sorted = <<>>
  /\ rune_pair' = [rune_pair EXCEPT
                     !.sorted = get_sorted_rune_ids(rune_pair.rune0, rune_pair.rune1)]
  /\ UNCHANGED <<IndexerVars, tcp, addr, shutdown_flag, alkanes>>

NextRuneIds == RuneIdSort

SpecRuneIds == InitRunePairs /\ [][NextRuneIds]_vars

(***************************************************************************)
(* C30: the encoded keys of two RuneIds compare bytewise as the RuneIds    *)
(* compare numerically on (block, tx): get_sorted_rune_ids returns first   *)
(* the key of the numerically smaller RuneId.                              *)
(***************************************************************************)
NumericLeq(a, b) == a.block < b.block \/ (a.block = b.block /\ a.tx <= b.tx)

C30_EncodedOrderIsNumeric ==
  rune_pair.sorted # <<>> =>
    /\ BytesLeq(to_bytes(rune_pair.rune0), to_bytes(rune_pair.rune1))
         <=> NumericLeq(rune_pair.rune0, rune_pair.rune1)
    /\ rune_pair.sorted[1] =
         IF NumericLeq(rune_pair.rune0, rune_pair.rune1)
         THEN to_bytes(rune_pair.rune0) ELSE to_bytes(rune_pair.rune1)

(***************************************************************************)
(* The Transaction Updater driven on its own: save is applied to a         *)
(* state-change, with an event sender, in block or in mempool mode, on a   *)
(* store that is empty or holds the rune R with counters anywhere in their *)
(* range; what save wrote into the cache is then committed.  result tells  *)
(* the last call, events what it sent.                                     *)
(***************************************************************************)
CounterValues == {0, 1, U128_MAX}

BurnAmounts == {1, I128_MAX + 1, U128_MAX}

\* the store after block 0 [Te], the counters of R set to the given values
StoreWithRune(burned, pending_burns) ==
  LET txs == <<"Te">>
      c == UpdaterCache_new(EmptyStore, FALSE)
      ib == save_block([ok |-> TRUE, cache |-> c, events |-> <<>>], EmptyStore,
                       TransactionUpdater_new(FALSE, FALSE), 0,
                       parse_block(c, EmptyStore, 0, txs, 1),
                       empty_block(0, Header(<<>>, 0, txs)))
      d == flush(set_new_block(ib.st.cache, ib.block), EmptyStore,
                 MaxReorgDepthSetting, FALSE).db
  IN  [d EXCEPT !.runes[RuneR].burned = burned,
                !.runes[RuneR].pending_burns = pending_burns]

InitSave ==
  /\ settings = [max_recoverable_reorg_depth |-> MaxReorgDepthSetting,
                 commit_interval |-> 1, index_spent_outputs |-> FALSE]
  /\ db \in {EmptyStore}
             \cup {StoreWithRune(b, p) : b \in CounterValues, p \in CounterValues}
  /\ chain = IF db = EmptyStore THEN <<>> ELSE <<[nonce |-> 0, txs |-> <<"Te">>]>>
  /\ node_mempool = {}
  /\ node_hist = [reorgs |-> 0, relayed |-> {}]
  /\ is_at_tip = FALSE
  /\ ut = UtIdle
  /\ result = NoResult
  /\ events = <<>>
  /\ mp = MpIdle
  /\ store_lock = StoreWithLock_new
  /\ reader = NoReading
  /\ tx_update = TransactionUpdate_default
  /\ tcp = TcpSubscriptionManager_new
  /\ addr = AddressUpdater_new
  /\ rune_pair = NoPair
  /\ shutdown_flag = FALSE
  /\ alkanes = AlkanesRocksDBStore_new(EmptyMap)
  /\ hist = NoHist

\* the state-changes handed to save: those the parser yields for Te, Tm1 and
\* Tb, an etching whose premine is burned by the etching transaction itself,
\* and burns of R of every size
StateChanges(c, d, height) ==
  {[txid |-> t, change |-> index_runes(c, d, height, 0, t)] : t \in {"Te", "Tm1", "Tb"}}
    \cup (IF has_rune_id(c, d, "R") THEN {}
          ELSE {[txid |-> "Te",
                 change |-> [inputs |-> <<>>,
                             outputs |-> <<[runes |-> EmptyMap, spent |-> FALSE]>>,
                             etched |-> <<[id |-> <<height, 0>>, rune |-> "R"]>>,
                             minted |-> NoMint,
                             burned |-> BalOf(<<height, 0>>, 1)]]})
    \cup (IF ~has_rune(c, d, RuneR) THEN {}
          ELSE {[txid |-> "Tb",
                 change |-> [inputs |-> <<OutPoint("Te", 0)>>,
                             outputs |-> <<[runes |-> EmptyMap, spent |-> FALSE]>>,
                             etched |-> NoEtching,
                             minted |-> NoMint,
                             burned |-> BalOf(RuneR, a)]] : a \in BurnAmounts})

SavesDone == IF result.kind = "save" THEN result.n ELSE 0

\* TransactionUpdater::new(cache, Some(sender), mempool), save, and the
\* commit of the cache
DrvSave(mempool) ==
  /\ SavesDone < MaxSaves
  /\ LET c == UpdaterCache_new(db, mempool)
         height == get_block_count(c)
     IN  \E x \in StateChanges(c, db, height) :
           LET st == save([ok |-> TRUE, cache |-> c, events |-> <<>>], db,
                          TransactionUpdater_new(TRUE, mempool), height,
                          x.txid, x.change)
           IN  /\ db' = IF st.ok THEN batch_update(db, st.cache.update, mempool) ELSE db
               /\ events' = st.events
               /\ result' = [kind |-> "save", ok |-> st.ok, mempool |-> mempool,
                             txid |-> x.txid, change |-> x.change,
                             n |-> SavesDone + 1]
  /\ UNCHANGED <<settings, chain, node_mempool, node_hist, is_at_tip, ut, mp,
                 store_lock, reader, tx_update, hist>>
  /\ UNCHANGED SideVars

NextSave == \E mempool \in BOOLEAN : DrvSave(mempool)

SpecSave == InitSave /\ [][NextSave]_vars

\* this step is a call of save
SaveStep == result'.kind = "save" /\ result'.n = SavesDone + 1

(***************************************************************************)
(* C31: a state-change that burns a of R adds a to R.burned in block mode  *)
(* and a to R.pending_burns in mempool mode; when the sum does not fit the *)
(* counter, save fails and R's entry is unchanged.                         *)
(***************************************************************************)
C31_BurnAddsToItsCounter ==
  [][SaveStep /\ result'.change.etched = NoEtching
       /\ DOMAIN result'.change.burned = {RuneR} /\ Has(db.runes, RuneR) =>
       LET a == result'.change.burned[RuneR]
           old == db.runes[RuneR]
           new == db'.runes[RuneR]
           counter == IF result'.mempool THEN old.pending_burns ELSE old.burned
       IN  IF counter + a <= U128_MAX
           THEN /\ result'.ok
                /\ new = IF result'.mempool
                         THEN [old EXCEPT !.pending_burns = counter + a]
                         ELSE [old EXCEPT !.burned = counter + a]
           ELSE ~result'.ok /\ new = old]_vars

(***************************************************************************)
(* C32: save in mempool mode leaves mints and burned of every rune entry   *)
(* as they were, and save in block mode leaves pending_mints and           *)
(* pending_burns as they were.                                             *)
(***************************************************************************)
C32_FlagSeparatesCounters ==
  [][SaveStep =>
       \A id \in DOMAIN db.runes :
         IF result'.mempool
         THEN /\ db'.runes[id].mints = db.runes[id].mints
              /\ db'.runes[id].burned = db.runes[id].burned
         ELSE /\ db'.runes[id].pending_mints = db.runes[id].pending_mints
              /\ db'.runes[id].pending_burns = db.runes[id].pending_burns]_vars

\* a mint was saved in mempool mode and then a burn in block mode: the mint
\* is pending only, the burn touched burned only
C32_Witness ==
  /\ result.kind = "save" /\ result.ok /\ ~result.mempool
  /\ result.n = 2
  /\ DOMAIN result.change.burned = {RuneR}
  /\ db.runes[RuneR].pending_mints = 1
  /\ db.runes[RuneR].mints = 0
  /\ db.runes[RuneR].pending_burns = 0
  /\ db.runes[RuneR].burned = 1

(***************************************************************************)
(* C35: every event save sent carries in_mempool equal to the updater's    *)
(* mempool flag.                                                           *)
(***************************************************************************)
C35_EventsCarryTheFlag ==
  result.kind = "save" =>
    \A i \in DOMAIN events : events[i].in_mempool = result.mempool

(***************************************************************************)
(* C38: save of a state-change that etches a rune and burns it in the same *)
(* transaction succeeds, and afterwards the rune's entry exists and its    *)
(* burn counter includes the burn.                                         *)
(***************************************************************************)
C38_EtchAndBurnSaved ==
  result.kind = "save" /\ result.change.etched # NoEtching
    /\ result.change.etched[1].id \in DOMAIN result.change.burned =>
      LET id == result.change.etched[1].id IN
        /\ result.ok
        /\ Has(db.runes, id)
        /\ (IF result.mempool THEN db.runes[id].pending_burns ELSE db.runes[id].burned)
             >= result.change.burned[id]

(***************************************************************************)
(* The commit interval.  Under SpecPurge commit_interval is 1 or more and  *)
(* update_to_tip asks should_flush after every block it stages.            *)
(***************************************************************************)
\* update_to_tip has staged one more block and waits for the next one
BlockStaged ==
  /\ ut.pc = "recv"
  /\ ut'.pc = "recv"
  /\ get_block_count(ut'.cache) = get_block_count(ut.cache) + 1

\* the blocks staged and not flushed, counting the one this step stages
WindowAfterStaging == Cardinality(DOMAIN ut.cache.update.blocks) + 1

\* the step committed the window to the store
WindowFlushed == db'.block_count = get_block_count(ut'.cache) /\ db' # db

\* C33 as stated: the block pipeline flushes the window after staging a
\* block if and only if the window then holds strictly more than
\* commit_interval blocks.
C33_FlushWhenWindowExceedsMax ==
  [][BlockStaged =>
       (WindowFlushed <=> WindowAfterStaging > settings.commit_interval)]_vars

\* C33 amended: the block pipeline flushes the window after staging a block
\* if and only if the window then holds commit_interval blocks or more, so
\* that commit_interval is the number of blocks per flush.
C33_FlushWhenWindowReachesMax ==
  [][BlockStaged =>
       (WindowFlushed <=> WindowAfterStaging >= settings.commit_interval)]_vars

\* two blocks per flush, in the first run of update_to_tip: the second block
\* has just been staged and the window of exactly two blocks is in the
\* store, with more blocks to come
C33_Witness ==
  /\ ut.pc = "recv"
  /\ result = NoResult
  /\ settings.commit_interval = 2
  /\ ut.cache.first_block_height = 2
  /\ get_block_count(ut.cache) = 2
  /\ get_block_count(ut.cache) < ut.bitcoin_block_count
  /\ db.block_count = 2
  /\ ut.cache.update.blocks = EmptyMap

(***************************************************************************)
(* The cache driven on its own: set_tx_out, set_rune, set_new_block and    *)
(* flush in any order on a block-mode cache, over a store that holds       *)
(* block 0 [Te] and block 1 [Tb].  hist is the one map the cache and the   *)
(* store stand for: the value last set for every key, and the outpoints a  *)
(* flush has purged since.                                                 *)
(***************************************************************************)
RECURSIVE StoreAfterBlocks(_, _, _, _)
StoreAfterBlocks(c, d, prev, txlists) ==
  IF txlists = <<>> THEN d
  ELSE LET header == Header(prev, 0, Head(txlists))
           ib == index_block(c, d, [header |-> header, txdata |-> Head(txlists)],
                             get_block_count(c))
           f == flush(set_new_block(ib.st.cache, ib.block), d, 1, FALSE)
       IN  StoreAfterBlocks(f.cache, f.db, block_hash(header), Tail(txlists))

CacheStore ==
  StoreAfterBlocks(UpdaterCache_new(EmptyStore, FALSE), EmptyStore, <<>>,
                   <<<<"Te">>, <<"Tb">>>>)

CacheOutPoints == {OutPoint("Te", 0), OutPoint("Tb", 0)}

TxOutValues == {[runes |-> BalOf(RuneR, 1), spent |-> s] : s \in BOOLEAN}

RuneValues == {[CacheStore.runes[RuneR] EXCEPT !.mints = n] : n \in {0, 1}}

InitCache ==
  /\ settings \in [max_recoverable_reorg_depth : {1},
                   commit_interval : {1},
                   index_spent_outputs : BOOLEAN]
  /\ chain = <<[nonce |-> 0, txs |-> <<"Te">>], [nonce |-> 0, txs |-> <<"Tb">>]>>
  /\ node_mempool = {}
  /\ node_hist = [reorgs |-> 0, relayed |-> {}]
  /\ db = CacheStore
  /\ is_at_tip = FALSE
  /\ ut = [pc |-> "cache", cache |-> UpdaterCache_new(CacheStore, FALSE)]
  /\ result = NoResult
  /\ events = <<>>
  /\ mp = MpIdle
  /\ store_lock = StoreWithLock_new
  /\ reader = NoReading
  /\ tx_update = TransactionUpdate_default
  /\ tcp = TcpSubscriptionManager_new
  /\ addr = AddressUpdater_new
  /\ rune_pair = NoPair
  /\ shutdown_flag = FALSE
  /\ alkanes = AlkanesRocksDBStore_new(EmptyMap)
  /\ hist = [txouts |-> CacheStore.txouts, runes |-> CacheStore.runes,
             blocks |-> CacheStore.blocks, purged |-> {}]

CacheFrame ==
  /\ UNCHANGED <<settings, chain, node_mempool, node_hist, is_at_tip, events, mp,
                 store_lock, reader, tx_update>>
  /\ UNCHANGED SideVars

\* UpdaterCache::set_tx_out
CacheSetTxOut ==
  /\ \E o \in CacheOutPoints, tx_out \in TxOutValues :
       /\ ut' = [ut EXCEPT !.cache = set_tx_out(@, o, tx_out)]
       /\ hist' = [hist EXCEPT !.txouts = Put(@, o, tx_out), !.purged = @ \ {o}]
       /\ result' = [kind |-> "set_tx_out", key |-> o]
  /\ UNCHANGED db
  /\ CacheFrame

\* UpdaterCache::set_rune
CacheSetRune ==
  /\ \E entry \in RuneValues :
       /\ ut' = [ut EXCEPT !.cache = set_rune(@, RuneR, entry)]
       /\ hist' = [hist EXCEPT !.runes = Put(@, RuneR, entry)]
       /\ result' = [kind |-> "set_rune", key |-> RuneR]
  /\ UNCHANGED db
  /\ CacheFrame

\* UpdaterCache::set_new_block, with the next block of the chain (empty)
CacheSetNewBlock ==
  /\ get_block_count(ut.cache) < MaxPurgeHeight
  /\ LET height == get_block_count(ut.cache)
         prev == cache_get_block_by_height(ut.cache, db, height - 1)
         block == empty_block(height, Header(block_hash(prev.header), 0, <<>>))
     IN  /\ ut' = [ut EXCEPT !.cache = set_new_block(@, block)]
         /\ hist' = [hist EXCEPT !.blocks = Put(@, block_hash(block.header), block)]
         /\ result' = [kind |-> "set_new_block", key |-> block_hash(block.header)]
  /\ UNCHANGED db
  /\ CacheFrame

\* UpdaterCache::flush
CacheFlush ==
  /\ LET p == prepare_to_delete(ut.cache, db, settings.max_recoverable_reorg_depth,
                                settings.index_spent_outputs)
         f == flush(ut.cache, db, settings.max_recoverable_reorg_depth,
                    settings.index_spent_outputs)
     IN  /\ f.ok
         /\ db' = f.db
         /\ ut' = [ut EXCEPT !.cache = f.cache]
         /\ hist' = [hist EXCEPT !.purged = @ \cup p.cache.delete.tx_outs]
         /\ result' = [kind |-> "flush", staged |-> ut.cache.update]
  /\ CacheFrame

NextCache ==
  \/ CacheSetTxOut
  \/ CacheSetRune
  \/ CacheSetNewBlock
  \/ CacheFlush

SpecCache == InitCache /\ [][NextCache]_vars

\* get_rune and get_block return the value last set
RunesAndBlocksReadBack ==
  /\ \A id \in DOMAIN hist.runes :
       has_rune(ut.cache, db, id) /\ get_rune(ut.cache, db, id) = hist.runes[id]
  /\ \A hash \in DOMAIN hist.blocks :
       /\ Has(ut.cache.update.blocks, hash) \/ Has(db.blocks, hash)
       /\ cache_get_block_by_height(ut.cache, db, hist.blocks[hash].height)
            = hist.blocks[hash]

\* a set_* call leaves the store as it was
SetLeavesStore ==
  result'.kind \in {"set_tx_out", "set_rune", "set_new_block"} => db' = db

SetShutdown ==
  /\ ~shutdown_flag
  /\ shutdown_flag' = TRUE
  /\ UNCHANGED <<IndexerVars, tcp, addr, rune_pair, alkanes>>

\* lines 163-167 and 207-224: a block is received with the flag set; it is
\* dropped, both loops are left and the window is flushed
UpdateToTipShutdown ==
  /\ ut.pc = "recv"
  /\ shutdown_flag
  /\ get_block_count(ut.cache) < ut.bitcoin_block_count
  /\ get_block_count(ut.cache) < Len(chain)
  /\ UtFinish(ut.cache)
  /\ hist' = HistBlocks(hist, db, db')
  /\ UNCHANGED <<mp, reader, store_lock, tx_update>>
  /\ UNCHANGED SideVars
  /\ UNCHANGED <<settings, chain, node_mempool, node_hist, events>>

NextShutdown ==
  \/ NodeMineMany
  \/ UpdateToTipStart
  \/ UpdateToTipBlock
  \/ UpdateToTipShutdown
  \/ UpdateToTipBatchEnd
  \/ SetShutdown

SpecShutdown == InitPurge /\ [][NextShutdown]_vars

\* the blocks update_to_tip has indexed: those of the store and those staged
BlocksIndexed == IF ut.pc = "recv" THEN get_block_count(ut.cache) ELSE db.block_count

\* update_to_tip returns in this step
UtReturns == ut.pc = "recv" /\ ut'.pc = "idle"

\* C36: once the shutdown flag is set, no step of update_to_tip indexes a
\* block; the call that is running returns Ok at its next step, with every
\* block it had staged in the store, and is_at_tip is not set to true.
C36_ShutdownStopsIndexing ==
  [][shutdown_flag =>
       /\ BlocksIndexed' = BlocksIndexed
       /\ ~is_at_tip => ~is_at_tip'
       /\ ut.pc = "recv" /\ ut' # ut =>
            /\ UtReturns
            /\ result' = Ok
            /\ db'.block_count = get_block_count(ut.cache)
            /\ \A hash \in DOMAIN ut.cache.update.blocks :
                 Has(db'.blocks, hash) /\ db'.blocks[hash] = ut.cache.update.blocks[hash]]_vars

\* update_to_tip has returned Ok under a set shutdown flag: one block of a
\* window of two is in the store, the blocks after it are not indexed, and
\* is_at_tip is false
C36_Witness ==
  /\ shutdown_flag
  /\ ut.pc = "idle"
  /\ result = Ok
  /\ settings.commit_interval = 2
  /\ db.block_count = 1
  /\ Len(chain) > 1
  /\ ~is_at_tip

(***************************************************************************)
(* The subscription table when a connection handler ends (SpecBroadcast).  *)
(***************************************************************************)
\* C37: a connection handler that has ended, however it ended, has left no
\* subscription of its own in the manager's table.
C37_EndedHandlerUnregistered ==
  \A c \in Conns :
    tcp.conn[c].pc \notin {"idle", "handshake", "streaming"} => ~Has(tcp.subscriptions, c)

(***************************************************************************)
(* The address updater called at the end of every block.  The cache's      *)
(* update is empty when a window begins; every block of the window ends    *)
(* with batch_update_script_pubkey, and the flush commits what the cache   *)
(* has staged then.  addr.block counts the calls made in the window.       *)
(***************************************************************************)
\* the updater in front of the cache as the last flush left it
AddrInWindow ==
  IF addr.block = 0 THEN [addr EXCEPT !.staged = AddressUpdater_new.staged] ELSE addr

\* a block that is not the last of its window ends
AddrBlockEnd ==
  /\ addr.window < MaxWindows
  /\ addr.block + 1 < MaxWindowBlocks
  /\ addr' = [batch_update_script_pubkey(AddrInWindow, addr.store) EXCEPT !.block = @ + 1]
  /\ AddrFrame

\* the last block of the window ends, and the cache is flushed; the staged
\* maps stay readable as the flush found them until the next window
AddrWindowEnd ==
  /\ addr.window < MaxWindows
  /\ LET u == batch_update_script_pubkey(AddrInWindow, addr.store)
     IN  addr' = [u EXCEPT !.store = store_script_pubkeys(addr.store, u.staged),
                           !.window = @ + 1,
                           !.block = 0]
  /\ AddrFrame

NextAddressBlocks ==
  \/ AddrNewOutpoint
  \/ AddrSpentOutpoint
  \/ AddrBlockEnd
  \/ AddrWindowEnd

SpecAddressBlocks == Init /\ [][NextAddressBlocks]_vars

\* the outpoints add_new_outpoint recorded in window w that were not spent
\* in it
Surviving(w) ==
  {o \in DOMAIN addr.born :
     /\ addr.born[o].window = w
     /\ ~is_op_return(addr.born[o].script_pubkey)
     /\ ~(Has(addr.died, o) /\ addr.died[o].window = w)}

\* C39: when a window has been flushed, every outpoint recorded in it and
\* not spent in it was, at the flush, among the staged new outpoints of its
\* script and in the staged reverse map, whatever the number of calls of
\* batch_update_script_pubkey in the window.
C39_NoStagedDeltaLost ==
  (addr.window > 0 /\ addr.block = 0 /\ addr.new_outpoints = EmptyMap
     /\ addr.spent_outpoints = EmptyMap) =>
    \A o \in Surviving(addr.window - 1) :
      LET spk == addr.born[o].script_pubkey
      IN  /\ Has(addr.staged.script_pubkeys, spk)
          /\ o \in addr.staged.script_pubkeys[spk].new
          /\ Has(addr.staged.script_pubkeys_outpoints, o)
          /\ addr.staged.script_pubkeys_outpoints[o] = spk

(***************************************************************************)
(* The alkanes key-value store (alkanes/store.rs).  The runtime puts and   *)
(* deletes through the store, or fills a batch of its own and hands it to  *)
(* write; all of it lands in one shared pending batch, which reads look at *)
(* before the column family.  A value read is <<v>>, None is <<>>.         *)
(***************************************************************************)
\* most calls of put, delete and write on one pending batch
MaxAlkanesCalls == 3

AlkanesKeys == {"k1", "k2"}

AlkanesValues == {"v1", "v2"}

\* the column family holds nothing, or a value for k1
AlkanesColumnFamilies == {EmptyMap, "k1" :> "v1"}

None == <<>>

Some(value) == <<value>>

\* impl BatchLike for AlkanesBatch: put, delete
AlkanesBatch_put(batch, key, value) == [batch EXCEPT !.puts = Put(@, key, value)]

AlkanesBatch_delete(batch, key) == [batch EXCEPT !.deletes = @ \cup {key}]

\* AlkanesRocksDBStore::write: the batch is merged into the shared one
alkanes_write(a, batch) ==
  [a EXCEPT !.batch.puts = Overlay(batch.puts, @),
            !.batch.deletes = @ \cup batch.deletes]

\* AlkanesRocksDBStore::get
alkanes_get(a, key) ==
  IF Has(a.batch.puts, key) THEN Some(a.batch.puts[key])
  ELSE IF key \in a.batch.deletes THEN None
  ELSE IF Has(a.db, key) THEN Some(a.db[key])
  ELSE None

\* AlkanesRocksDBStore::get_immutable
alkanes_get_immutable(a, key) ==
  IF Has(a.batch.puts, key) THEN Some(a.batch.puts[key])
  ELSE IF key \in a.batch.deletes THEN None
  ELSE IF Has(a.db, key) THEN Some(a.db[key])
  ELSE None

\* AlkanesRocksDBStore::put
alkanes_put(a, key, value) == [a EXCEPT !.batch = AlkanesBatch_put(@, key, value)]

\* AlkanesRocksDBStore::delete
alkanes_delete(a, key) == [a EXCEPT !.batch = AlkanesBatch_delete(@, key)]

\* one operation: a put of a value, or a delete
AlkanesOps ==
  [kind : {"put"}, key : AlkanesKeys, value : AlkanesValues]
    \cup [kind : {"delete"}, key : AlkanesKeys]

\* the operations applied to a batch, in order
RECURSIVE AlkanesBatch_apply(_, _)
AlkanesBatch_apply(batch, ops) ==
  IF ops = <<>> THEN batch
  ELSE AlkanesBatch_apply(IF Head(ops).kind = "put"
                          THEN AlkanesBatch_put(batch, Head(ops).key, Head(ops).value)
                          ELSE AlkanesBatch_delete(batch, Head(ops).key),
                          Tail(ops))

\* what the operations leave pending on each key: the last one wins
RECURSIVE NoteOps(_, _)
NoteOps(pending, ops) ==
  IF ops = <<>> THEN pending
  ELSE NoteOps(Put(pending, Head(ops).key,
                   IF Head(ops).kind = "put" THEN Some(Head(ops).value) ELSE None),
               Tail(ops))

InitAlkanes == Init

AlkanesFrame == UNCHANGED <<IndexerVars, tcp, addr, rune_pair, shutdown_flag>>

\* AlkanesIndexer::new over a column family with something in it
AlkNew ==
  /\ alkanes = AlkanesRocksDBStore_new(EmptyMap)
  /\ \E cf \in AlkanesColumnFamilies \ {EmptyMap} :
       alkanes' = AlkanesRocksDBStore_new(cf)
  /\ AlkanesFrame

AlkPut ==
  /\ alkanes.calls < MaxAlkanesCalls
  /\ \E key \in AlkanesKeys, value \in AlkanesValues :
       alkanes' = [alkanes_put(alkanes, key, value) EXCEPT
                     !.ops = NoteOps(@, <<[kind |-> "put", key |-> key, value |-> value]>>),
                     !.calls = @ + 1]
  /\ AlkanesFrame

AlkDelete ==
  /\ alkanes.calls < MaxAlkanesCalls
  /\ \E key \in AlkanesKeys :
       alkanes' = [alkanes_delete(alkanes, key) EXCEPT
                     !.ops = NoteOps(@, <<[kind |-> "delete", key |-> key]>>),
                     !.calls = @ + 1]
  /\ AlkanesFrame

\* create_batch, one or two operations on the batch, write
AlkWrite ==
  /\ alkanes.calls < MaxAlkanesCalls
  /\ \E op1 \in AlkanesOps, more \in {<<>>} \cup {<<op>> : op \in AlkanesOps} :
       LET ops == <<op1>> \o more
       IN  alkanes' = [alkanes_write(alkanes, AlkanesBatch_apply(AlkanesBatch_default, ops))
                         EXCEPT !.ops = NoteOps(@, ops), !.calls = @ + 1]
  /\ AlkanesFrame

\* AlkanesIndexer::rollback_to_height: the pending batch is cleared
AlkRollback ==
  /\ alkanes.calls > 0
  /\ alkanes' = [alkanes EXCEPT !.batch = AlkanesBatch_default,
                                !.ops = EmptyMap, !.calls = 0]
  /\ AlkanesFrame

NextAlkanes ==
  \/ AlkNew
  \/ AlkPut
  \/ AlkDelete
  \/ AlkWrite
  \/ AlkRollback

SpecAlkanes == InitAlkanes /\ [][NextAlkanes]_vars

\* C40: get and get_immutable return what the last pending operation on the
\* key left: the value of a put, None after a delete.
C40_ReadsReflectLastOperation ==
  \A key \in DOMAIN alkanes.ops :
    /\ alkanes_get(alkanes, key) = alkanes.ops[key]
    /\ alkanes_get_immutable(alkanes, key) = alkanes.ops[key]

====
